---- MODULE Spec2Model ----
(***************************************************************************)
(* Verification model of the adaptive time stepping controller             *)
(* (AdaptiveTimeStepping::stepImpl), the Newton iteration controller       *)
(* (BlackoilModelEbos::nonlinearIteration, getConvergence) and the well    *)
(* model (StandardWellsDense::updateWellState).                            *)
(*                                                                         *)
(* Times and all other double quantities are exact rationals <<n, d>>,     *)
(* d > 0, in lowest terms; the unit of time is one day.                    *)
(***************************************************************************)
EXTENDS Integers, Sequences, FiniteSets, TLC

\* ------------------------------------------------------------------------
\* Rational arithmetic
\* ------------------------------------------------------------------------
RECURSIVE GCD(_, _)
GCD(a, b) == IF b = 0 THEN a ELSE GCD(b, a % b)

IAbs(a) == IF a < 0 THEN -a ELSE a

R(n, d) ==
    LET s == IF d < 0 THEN -1 ELSE 1
        k == GCD(IAbs(n), IAbs(d))
    IN  <<(s * n) \div k, (s * d) \div k>>

\* the factor that brings x to the common denominator of x and y
Scale(x, y) == y[2] \div GCD(x[2], y[2])

RAdd(x, y) == R(x[1] * Scale(x, y) + y[1] * Scale(y, x), x[2] * Scale(x, y))
RSub(x, y) == R(x[1] * Scale(x, y) - y[1] * Scale(y, x), x[2] * Scale(x, y))
RMul(x, y) == R(x[1] * y[1], x[2] * y[2])
RDiv(x, y) == R(x[1] * y[2], x[2] * y[1])
RNeg(x)    == <<-x[1], x[2]>>
RAbs(x)    == <<IAbs(x[1]), x[2]>>
RLt(x, y)  == x[1] * Scale(x, y) < y[1] * Scale(y, x)
RLe(x, y)  == x[1] * Scale(x, y) <= y[1] * Scale(y, x)
RGt(x, y)  == RLt(y, x)
RGe(x, y)  == RLe(y, x)
\* std::min(a, b) is (b < a) ? b : a; std::max(a, b) is (a < b) ? b : a
RMin(a, b) == IF RLt(b, a) THEN b ELSE a
RMax(a, b) == IF RLt(a, b) THEN b ELSE a
Zero == R(0, 1)
One  == R(1, 1)

RECURSIVE RPow(_, _)
RPow(x, k) == IF k = 0 THEN One ELSE RMul(x, RPow(x, k - 1))

\* ------------------------------------------------------------------------
\* Bounds of the model
\* ------------------------------------------------------------------------
\* total number of solver.step calls in one run
MaxAttempts == 4
\* number of report steps (calls of AdaptiveTimeStepping::step) in one run
MaxReportSteps == 2

VARIABLES
    \* --- AdaptiveTimeStepping: fields set by the constructor ---
    restart_factor_, growth_factor_, max_growth_, max_time_step_,
    solver_restart_max_, full_timestep_initially_, timestep_after_event_,
    suggested_next_timestep_,
    \* --- stepImpl: arguments and locals ---
    pc,             \* "constructed", "loop", "returned", "aborted"
    timestep,       \* simulatorTimer.currentStepLength()
    event,
    substepTimer,   \* AdaptiveSimulatorTimer
    state, well_state, last_state, last_well_state,
    restarts,
    report,         \* SimulatorReport returned by stepImpl
    substepReport,  \* SimulatorReport of the last substep attempt
    dt,             \* length of the last attempted substep
    dtEstimate,     \* estimate handed to the timer after a converged substep
    newTimeStep,    \* estimate handed to the timer after a failed substep
    cause_of_failure,
    caught,         \* exception caught by the last pass of the loop
    thrownAt,       \* where the exception of the last pass was thrown
    escaped,        \* exception that left stepImpl
    \* --- history of the run, read by the properties only ---
    firstSuggested, \* suggested_next_timestep_ handed to the timer's constructor
    firstDt,        \* length of the first substep attempted in the report step
    enteredWith,    \* suggested_next_timestep_ at entry of stepImpl
    goodState, goodWellState,   \* states after the last converged substep / at entry
    stateAfterSolve, wellStateAfterSolve, \* states as the last solver.step left them
    persisted,      \* substep length stored by the last return of stepImpl
    convergedSum, numConverged, \* lengths and number of converged substeps
    consecFails,    \* failed attempts since the last converged substep
    firstFailedDt,  \* length of the first attempt of the current run of failures
    prevFailed,     \* an attempt failed between the last two converged substeps
    clockBefore,    \* substep clock before the last pass of the loop
    attempts, reportSteps

stepVars == <<restart_factor_, growth_factor_, max_growth_, max_time_step_,
              solver_restart_max_, full_timestep_initially_, timestep_after_event_,
              suggested_next_timestep_, pc, timestep, event, substepTimer,
              state, well_state, last_state, last_well_state, restarts, report,
              substepReport, dt, dtEstimate, newTimeStep, cause_of_failure,
              caught, thrownAt, escaped, firstSuggested, firstDt, enteredWith,
              goodState, goodWellState, stateAfterSolve, wellStateAfterSolve, persisted, convergedSum, numConverged, consecFails,
              firstFailedDt, prevFailed, clockBefore, attempts, reportSteps>>

VARIABLES
    \* --- BlackoilModelEbos: one time step of the Newton iteration ---
    minIter,            \* nonlinear_solver.minIter()
    max_strict_iter_,   \* param_.max_strict_iter_
    groupControlActive, \* wellModel().wellCollection()->groupControlActive()
    simTimer,           \* the timer handed to nonlinearIteration
    newtonPc,           \* "iterating", "converged", "threw"
    iteration,          \* index of the next call of nonlinearIteration
    reservoir_state,    \* pressure and saturations of every cell
    newton_well_state,  \* the well_state handed to nonlinearIteration
    ebosSolution,       \* ebosSimulator_.model().solution(0)
    intensiveQuantitiesCache, \* the grid simulator's cache of time index 0
    ebosResid,          \* residual of the last linearization
    wellResidual,       \* wellModel().residual() of the last assembly
    groupTargetConverged,
    residual_norms_history_, current_relaxation_,
    iterReport,         \* SimulatorReport returned by nonlinearIteration
    newtonEscaped,      \* exception that left nonlinearIteration
    \* --- history of the last call, read by the properties only ---
    iterationRun,       \* iteration index of the last call
    reservoirStateAtCheck, wellStateAtCheck, solutionAtCheck,
    solutionPerturbed,  \* solution pushed by the last reservoir perturbation
    linearizedOn,       \* solution the linearize() of the last assemble worked on
    linearizedFor,      \* reservoir_state of the caller at that linearize()
    relaxationBefore,   \* current_relaxation_ when the last call was entered
    oscillationDetected \* isOscillate of the last call

newtonVars == <<minIter, max_strict_iter_, groupControlActive, simTimer,
                newtonPc, iteration, reservoir_state, newton_well_state,
                ebosSolution, ebosResid, wellResidual, groupTargetConverged,
                residual_norms_history_, current_relaxation_, iterReport,
                newtonEscaped, iterationRun, reservoirStateAtCheck,
                wellStateAtCheck, solutionAtCheck, solutionPerturbed,
                intensiveQuantitiesCache, linearizedOn, linearizedFor,
                relaxationBefore, oscillationDetected>>

VARIABLES
    \* --- BlackoilModelEbos::updateState, one cell of a three-phase run ---
    has_solvent_, has_disgas_, has_vapoil_,
    cell,           \* the entries of reservoir_state of the cell
    \* --- history of the last call, read by the properties only ---
    cellBefore,     \* the cell before the last call
    dxCell,         \* the entries of dx of the cell at the last call
    chopped,        \* the cell of the last call before its phase translation
    switched,       \* the branch the phase translation of the last call took
    switchedBefore, \* and that of the call before
    updateCount

updateVars == <<has_solvent_, has_disgas_, has_vapoil_, cell, cellBefore, dxCell,
                chopped, switched, switchedBefore, updateCount>>

VARIABLES
    \* --- StandardWellsDense: assemble and solveWellEq ---
    solve_welleq_initially_,  \* param_.solve_welleq_initially_
    assembleWellState,  \* the well_state handed to assemble
    ctrls,              \* well_controls_get_current of wells().ctrls[w]
    well_state0,        \* the copy solveWellEq takes
    solveIt, solveConverged,  \* it and converged of solveWellEq
    wellReport,         \* SimulatorReport returned by assemble
    wellsEscaped,       \* exception that left assemble
    wellsPc,            \* "idle", "solveWellEq", "assembled", "threw"
    iterationIdx,       \* iterationIdx of the last call of assemble
    assembleCalls,
    \* --- history of the pre-solve, read by the properties only ---
    wellStateAtEntry, ctrlsAtEntry, \* at the entry of solveWellEq
    updatesDone,        \* calls of updateWellState by the pre-solve
    wellStateLeft, ctrlsLeft,       \* as the last pass of its loop left them
    preSolve,           \* how the pre-solve of the last assemble ended
    \* --- the well variables, and the last call of updateWellControls ---
    wellVariables_,     \* the values setWellVariables has set
    controlsBefore,     \* the well state handed to updateWellControls
    controlsAfter       \* the current controls of the well state it left

wellVars == <<solve_welleq_initially_, assembleWellState, ctrls, well_state0,
              solveIt, solveConverged, wellReport, wellsEscaped, wellsPc, iterationIdx,
              assembleCalls, wellStateAtEntry, ctrlsAtEntry, updatesDone,
              wellStateLeft, ctrlsLeft, preSolve, wellVariables_, controlsBefore,
              controlsAfter>>

VARIABLES
    \* --- StandardWellsDense: the well operator of the linear solver ---
    schurSolvent,   \* has_solvent_ of the well model
    invDuneD_, duneD_, duneC_, duneB_,  \* the blocks of the one well
    resWell_,       \* the well residual
    Cx_, invDrw_,   \* the scratch vectors of apply
    wellBlock,      \* the well block assembleWellEq summed up, not inverted
    schurX, schurIn, schurOut,  \* arguments and result of the last call
    schurPc,        \* "constructed", "assembled", "applied", "recovered"
    schurOp         \* the last call

schurVars == <<schurSolvent, invDuneD_, duneD_, duneC_, duneB_, resWell_,
               Cx_, invDrw_, wellBlock, schurX, schurIn, schurOut, schurPc,
               schurOp>>


VARIABLES
    \* --- StandardWellsDense::updateWellState: the fractions of one well ---
    fracGas, fracSolvent,  \* active_[Gas] and has_solvent_
    wellFractions,  \* WFrac, GFrac and SFrac of well_state.wellSolutions()
    limitedF,       \* F and F_solvent before the negative ones are removed
    normalizedF,    \* F and F_solvent when they are written back
    fracUpdates     \* calls of updateWellState

fracVars == <<fracGas, fracSolvent, wellFractions, limitedF, normalizedF,
              fracUpdates>>


VARIABLES
    \* --- StandardWellsDense::computeWellFlux on the perforations of a well ---
    fluxWell,       \* type, allow_cf, bhp and surface volume fractions
    fluxCells,      \* pressure, Rs and Rv of the cell of every perforation
    perfFlux,       \* cq_s of every perforation the loop has been through
    fluxPerf,       \* the perforation the loop is at
    fluxThrown      \* the perforation at which NumericalProblem was thrown

fluxVars == <<fluxWell, fluxCells, perfFlux, fluxPerf, fluxThrown>>

VARIABLES
    \* --- StandardWellsDense::assemble called again, on one producer under
    \*     BHP control with one perforation ---
    repeatSolve,        \* param_.solve_welleq_initially_
    volumeByDt,         \* volume / dt of the accumulation term
    producerState,      \* well_state: wellSolutions, wellRates and bhp
    producerVariables,  \* wellVariables_
    F0_,                \* the surface volume fractions computeAccumWells kept
    assembledNow,       \* what the last call of assemble left
    assembledBefore,    \* what the call before it left
    repeatCalls         \* calls of assemble made

repeatVars == <<repeatSolve, volumeByDt, producerState, producerVariables, F0_,
                assembledNow, assembledBefore, repeatCalls>>

VARIABLES
    \* --- the substep loop of stepImpl, followed to its end ---
    loopTimer,      \* substepTimer
    loopRestarts,   \* restarts
    loopPc,         \* "loop", "returned", "aborted"
    loopEscaped,    \* the exception that left stepImpl
    loopChopped,    \* a pass of this report step chopped the substep length
    loopAdvanced    \* a pass of this report step advanced the substep clock

loopVars == <<loopTimer, loopRestarts, loopPc, loopEscaped, loopChopped, loopAdvanced>>

vars == <<stepVars, newtonVars, updateVars, wellVars, schurVars, fracVars, fluxVars, repeatVars, loopVars>>
otherThanStep == <<newtonVars, updateVars, wellVars, schurVars, fracVars, fluxVars, repeatVars, loopVars>>
otherThanNewton == <<stepVars, updateVars, wellVars, schurVars, fracVars, fluxVars, repeatVars, loopVars>>
otherThanUpdate == <<stepVars, newtonVars, wellVars, schurVars, fracVars, fluxVars, repeatVars, loopVars>>
otherThanWells == <<stepVars, newtonVars, updateVars, schurVars, fracVars, fluxVars, repeatVars, loopVars>>
otherThanSchur == <<stepVars, newtonVars, updateVars, wellVars, fracVars, fluxVars, repeatVars, loopVars>>
otherThanFrac == <<stepVars, newtonVars, updateVars, wellVars, schurVars, fluxVars, repeatVars, loopVars>>
otherThanFlux == <<stepVars, newtonVars, updateVars, wellVars, schurVars, fracVars, repeatVars, loopVars>>
otherThanRepeat == <<stepVars, newtonVars, updateVars, wellVars, schurVars, fracVars, fluxVars, loopVars>>
otherThanLoop == <<stepVars, newtonVars, updateVars, wellVars, schurVars, fracVars, fluxVars, repeatVars>>

None == "none"
\* a time, a state and an exception that are not set
NoTime == <<0, 0>>
NoState == 0 - 1
NoException == [kind |-> None, from |-> None]

\* ------------------------------------------------------------------------
\* AdaptiveSimulatorTimer: the substep clock
\* ------------------------------------------------------------------------
\* remaining time of the report step
Remaining(t) == RSub(t.total_time_, t.current_time_)

\* provideTimeStepEstimate: the next substep length is the estimate, capped by
\* the maximum substep length and by what is left of the report step
ProvideTimeStepEstimate(t, dt_estimate) ==
    LET capped == RMin(dt_estimate, t.max_time_step_)
        rem    == Remaining(t)
    IN  [t EXCEPT !.dt_ = IF RGt(rem, Zero) /\ RGt(capped, rem) THEN rem ELSE capped]

\* AdaptiveSimulatorTimer(timer, lastStepTaken, maxTimeStep); times are
\* relative to the start of the report step
NewSubstepTimer(length, lastStepTaken, maxTimeStep) ==
    ProvideTimeStepEstimate(
        [total_time_ |-> length, current_time_ |-> Zero, dt_ |-> Zero,
         max_time_step_ |-> maxTimeStep, current_step_ |-> 0,
         lastStepFailed_ |-> FALSE],
        lastStepTaken)

\* operator++: advance the clock by the current substep length
Advance(t) ==
    [t EXCEPT !.current_time_ = RAdd(t.current_time_, t.dt_),
              !.current_step_ = t.current_step_ + 1]

\* no substep timer exists before the first call of step
NoTimer ==
    [total_time_ |-> NoTime, current_time_ |-> NoTime, dt_ |-> NoTime,
     max_time_step_ |-> NoTime, current_step_ |-> 0, lastStepFailed_ |-> FALSE]

TimerDone(t) == RGe(t.current_time_, t.total_time_)

CurrentStepLength(t) == t.dt_

SetLastStepFailed(t, b) == [t EXCEPT !.lastStepFailed_ = b]

\* ------------------------------------------------------------------------
\* AdaptiveTimeStepping::stepImpl
\* ------------------------------------------------------------------------
\* values of the constructor's parameters and of the arguments of step
RestartFactors   == {R(1, 3)}
GrowthFactors    == {R(2, 1)}
MaxGrowths       == {R(3, 1)}
MaxTimeSteps     == {R(20, 1)}
RestartMaxima    == {0, 1, 2}
TimestepsAfterEvent == {R(-1, 1), R(2, 1), R(40, 1)}
InitialTimesteps == {R(-1, 1), R(1, 1)}
ReportStepLengths == {R(6, 1), R(30, 1)}
\* what the step size control may answer, as a multiple of the current length
PolicyFactors    == {R(1, 2), R(1, 1), R(5, 1)}

\* exceptions solver.step may throw; the last one is caught by no handler
Recoverable == {"TooManyIterations", "LinearSolverProblem", "NumericalProblem",
                "runtime_error", "ISTLError", "MatrixBlockError"}
Thrown == Recoverable \cup {"logic_error"}

\* where solver.step throws: the functions of the model and of the well model
\* with a throw statement, and the solvers it calls
ThrowSites == {"NonlinearSolver::step", "solveJacobianSystem", "getConvergence",
               "computeWellFlux", "computeWellPotentialWithTHP",
               "Dune::ISTL", "Dune::MatrixBlock", "updateState"}

\* the type of the exception thrown there
ThrownBy(site) ==
    CASE site = "NonlinearSolver::step"       -> "TooManyIterations"
      [] site = "solveJacobianSystem"         -> "LinearSolverProblem"
      [] site = "getConvergence"              -> "NumericalProblem"
      [] site = "computeWellFlux"             -> "NumericalProblem"
      [] site = "computeWellPotentialWithTHP" -> "runtime_error"
      [] site = "Dune::ISTL"                  -> "ISTLError"
      [] site = "Dune::MatrixBlock"           -> "MatrixBlockError"
      [] site = "updateState"                 -> "logic_error"

DefaultReport == [converged |-> FALSE]

\* InitialSuggestion with the full report step taking precedence over the
\* length after an event
InitialSuggestionFullLast(suggested, length, ev) ==
    LET s1 == IF RLt(suggested, Zero) THEN RMul(restart_factor_, length) ELSE suggested
        s2 == IF ev /\ RGt(timestep_after_event_, Zero) THEN timestep_after_event_ ELSE s1
    IN  IF full_timestep_initially_ THEN length ELSE s2

\* the suggested substep length the substep timer is constructed with
InitialSuggestion(suggested, length, ev) ==
    LET s1 == IF RLt(suggested, Zero) THEN RMul(restart_factor_, length) ELSE suggested
        s2 == IF full_timestep_initially_ THEN length ELSE s1
    IN  IF ev /\ RGt(timestep_after_event_, Zero) THEN timestep_after_event_ ELSE s2

\* CatchClause without the handler of Dune::MatrixBlockError
CatchClauseNoBlockError(kind) ==
    CASE kind = "TooManyIterations"   -> [caught |-> TRUE,
              cause |-> "Solver convergence failure - Iteration limit reached"]
      [] kind = "LinearSolverProblem" -> [caught |-> TRUE,
              cause |-> "Linear solver convergence failure"]
      [] kind = "NumericalProblem"    -> [caught |-> TRUE,
              cause |-> "Solver convergence failure - Numerical problem encountered"]
      [] kind = "runtime_error"       -> [caught |-> TRUE, cause |-> ""]
      [] kind = "ISTLError"           -> [caught |-> TRUE, cause |-> ""]
      [] OTHER                        -> [caught |-> FALSE, cause |-> ""]

\* the catch clauses after the try block: the handler an exception meets
CatchClause(kind) ==
    CASE kind = "TooManyIterations"   -> [caught |-> TRUE,
              cause |-> "Solver convergence failure - Iteration limit reached"]
      [] kind = "LinearSolverProblem" -> [caught |-> TRUE,
              cause |-> "Linear solver convergence failure"]
      [] kind = "NumericalProblem"    -> [caught |-> TRUE,
              cause |-> "Solver convergence failure - Numerical problem encountered"]
      [] kind = "runtime_error"       -> [caught |-> TRUE, cause |-> ""]
      [] kind = "ISTLError"           -> [caught |-> TRUE, cause |-> ""]
      [] kind = "MatrixBlockError"    -> [caught |-> TRUE, cause |-> ""]
      [] OTHER                        -> [caught |-> FALSE, cause |-> ""]

\* ClockAfter with ++substepTimer moved out of the converged branch
ClockAfterAlways(t, converged) == Advance(t)

\* the substep clock after an attempt: ++substepTimer in the converged branch only
ClockAfter(t, converged) == IF converged THEN Advance(t) ELSE t

\* LimitGrowth without the stricter limit after convergence problems
LimitGrowthMaxOnly(estimate, length, nrestarts) ==
    RMin(estimate, RMul(max_growth_, length))

\* the limits on the step size estimate after a converged substep
LimitGrowth(estimate, length, nrestarts) ==
    LET e1 == RMin(estimate, RMul(max_growth_, length))
    IN  IF nrestarts > 0 THEN RMin(RMul(growth_factor_, length), e1) ELSE e1

\* RestartsExhausted with > for >=
RestartsExhaustedLate(nrestarts) == nrestarts > solver_restart_max_

\* the restart counter is used up
RestartsExhausted(nrestarts) == nrestarts >= solver_restart_max_

\* ChoppedTimeStep dividing by the growth factor instead
ChoppedByGrowthFactor(length) == RDiv(length, growth_factor_)

\* the step length proposed after a failed attempt
ChoppedTimeStep(length) == RMul(restart_factor_, length)

\* ResetStates with the assignment left out
ResetStatesSkipped(cur, last) == cur

\* state = last_state; well_state = last_well_state
ResetStates(cur, last) == last

\* last_state = state; last_well_state = well_state
UpdateStates(cur, last) == cur

StepEnter(length, ev) ==
    /\ pc \in {"constructed", "returned"}
    /\ reportSteps < MaxReportSteps
    /\ reportSteps' = reportSteps + 1
    /\ timestep' = length
    /\ event' = ev
    /\ enteredWith' = suggested_next_timestep_
    /\ suggested_next_timestep_' = InitialSuggestion(suggested_next_timestep_, length, ev)
    /\ substepTimer' = NewSubstepTimer(length, suggested_next_timestep_', max_time_step_)
    /\ firstSuggested' = suggested_next_timestep_'
    /\ firstDt' = NoTime
    /\ last_state' = state
    /\ last_well_state' = well_state
    /\ goodState' = state
    /\ goodWellState' = well_state
    /\ stateAfterSolve' = NoState /\ wellStateAfterSolve' = NoState
    /\ restarts' = 0
    /\ report' = DefaultReport
    /\ substepReport' = DefaultReport
    /\ dt' = NoTime /\ dtEstimate' = NoTime /\ newTimeStep' = NoTime
    /\ cause_of_failure' = "" /\ caught' = None /\ thrownAt' = None
    /\ convergedSum' = Zero /\ numConverged' = 0
    /\ consecFails' = 0 /\ firstFailedDt' = NoTime /\ prevFailed' = FALSE
    /\ clockBefore' = Zero
    /\ pc' = "loop"
    /\ UNCHANGED <<restart_factor_, growth_factor_, max_growth_, max_time_step_,
                   solver_restart_max_, full_timestep_initially_,
                   timestep_after_event_, state, well_state, escaped, attempts,
                   persisted>>
    /\ UNCHANGED otherThanStep

\* what every pass of the substep loop does before the outcome is known
BeginAttempt ==
    /\ pc = "loop"
    /\ ~TimerDone(substepTimer)
    /\ attempts < MaxAttempts
    /\ attempts' = attempts + 1
    /\ dt' = CurrentStepLength(substepTimer)
    /\ firstDt' = IF firstDt = NoTime THEN dt' ELSE firstDt
    /\ clockBefore' = substepTimer.current_time_
    /\ UNCHANGED <<restart_factor_, growth_factor_, max_growth_, max_time_step_,
                   solver_restart_max_, full_timestep_initially_,
                   timestep_after_event_, suggested_next_timestep_, timestep,
                   event, firstSuggested, enteredWith, reportSteps, persisted>>
    /\ UNCHANGED otherThanStep

\* solver.step converged: the branch of substepReport.converged
SubstepConverged(factor) ==
    /\ BeginAttempt
    /\ substepReport' = [converged |-> TRUE]
    /\ cause_of_failure' = "" /\ caught' = None /\ thrownAt' = None
    /\ state' = attempts + 1
    /\ well_state' = attempts + 1
    /\ stateAfterSolve' = state' /\ wellStateAfterSolve' = well_state'
    /\ LET t1 == ClockAfter(substepTimer, TRUE)
           \* timeStepControl_->computeTimeStepSize( dt, iterations, ... )
           estimate == RMul(factor, dt')
           t2 == ProvideTimeStepEstimate(t1, LimitGrowth(estimate, dt', restarts))
       IN  /\ dtEstimate' = LimitGrowth(estimate, dt', restarts)
           /\ report' = [converged |-> TimerDone(t2)]
           /\ substepTimer' = SetLastStepFailed(t2, FALSE)
    /\ restarts' = IF restarts > 0 THEN 0 ELSE restarts
    /\ last_state' = UpdateStates(state', last_state)
    /\ last_well_state' = UpdateStates(well_state', last_well_state)
    /\ goodState' = state' /\ goodWellState' = well_state'
    /\ convergedSum' = RAdd(convergedSum, dt')
    /\ numConverged' = numConverged + 1
    /\ prevFailed' = (consecFails > 0)
    /\ consecFails' = 0
    /\ firstFailedDt' = NoTime
    /\ UNCHANGED <<newTimeStep, pc, escaped>>

\* the branch of a substep that did not converge; stateAfter and wellAfter are
\* the states as the failed solver.step left them
FailedSubstep(stateAfter, wellAfter) ==
    /\ substepReport' = [converged |-> FALSE]
    /\ stateAfterSolve' = stateAfter /\ wellStateAfterSolve' = wellAfter
    /\ consecFails' = consecFails + 1
    /\ firstFailedDt' = IF consecFails = 0 THEN dt' ELSE firstFailedDt
    /\ IF RestartsExhausted(restarts)
       THEN \* OPM_THROW_NOLOG(Opm::NumericalProblem, msg)
            /\ pc' = "aborted"
            /\ escaped' = [kind |-> "NumericalProblem", from |-> "stepImpl"]
            /\ substepTimer' = SetLastStepFailed(ClockAfter(substepTimer, FALSE), TRUE)
            /\ state' = stateAfter
            /\ well_state' = wellAfter
            /\ UNCHANGED <<newTimeStep, restarts>>
       ELSE /\ newTimeStep' = ChoppedTimeStep(dt')
            /\ substepTimer' = ProvideTimeStepEstimate(
                   SetLastStepFailed(ClockAfter(substepTimer, FALSE), TRUE),
                   newTimeStep')
            /\ state' = ResetStates(stateAfter, last_state)
            /\ well_state' = ResetStates(wellAfter, last_well_state)
            /\ restarts' = restarts + 1
            /\ UNCHANGED <<pc, escaped>>
    /\ UNCHANGED <<last_state, last_well_state, goodState, goodWellState, report,
                   dtEstimate, convergedSum, numConverged, prevFailed>>

\* the states a failed solver.step leaves behind: untouched, or changed by the
\* Newton updates applied before the failure
Dirtied == {"nothing", "state", "both"}
DirtyState(dirty) == IF dirty \in {"state", "both"} THEN attempts + 1 ELSE state
DirtyWellState(dirty) == IF dirty = "both" THEN attempts + 1 ELSE well_state

\* solver.step returned a report that is not converged
SubstepNotConverged(dirty) ==
    /\ BeginAttempt
    /\ cause_of_failure' = "" /\ caught' = None /\ thrownAt' = None
    /\ FailedSubstep(DirtyState(dirty), DirtyWellState(dirty))

\* solver.step threw at site; nonlinearIteration rethrows what it catches
SubstepThrows(site, dirty) ==
    /\ BeginAttempt
    /\ thrownAt' = site
    /\ IF CatchClause(ThrownBy(site)).caught
       THEN /\ cause_of_failure' = CatchClause(ThrownBy(site)).cause
            /\ caught' = ThrownBy(site)
            /\ FailedSubstep(DirtyState(dirty), DirtyWellState(dirty))
       ELSE /\ pc' = "aborted"
            /\ escaped' = [kind |-> ThrownBy(site), from |-> "solver.step"]
            /\ state' = DirtyState(dirty)
            /\ well_state' = DirtyWellState(dirty)
            /\ stateAfterSolve' = state' /\ wellStateAfterSolve' = well_state'
            /\ cause_of_failure' = "" /\ caught' = None
            /\ substepReport' = DefaultReport
            /\ UNCHANGED <<substepTimer, last_state, last_well_state, restarts,
                           report, dtEstimate, newTimeStep,
                           goodState, goodWellState, convergedSum, numConverged,
                           consecFails, firstFailedDt, prevFailed>>

\* the loop is left: the code after it
StepReturn ==
    /\ pc = "loop"
    /\ TimerDone(substepTimer)
    /\ suggested_next_timestep_' = CurrentStepLength(substepTimer)
    /\ persisted' = suggested_next_timestep_'
    /\ pc' = "returned"
    /\ UNCHANGED <<restart_factor_, growth_factor_, max_growth_, max_time_step_,
                   solver_restart_max_, full_timestep_initially_,
                   timestep_after_event_, timestep, event, substepTimer, state,
                   well_state, last_state, last_well_state, restarts, report,
                   substepReport, dt, dtEstimate, newTimeStep, cause_of_failure,
                   caught, thrownAt, escaped, firstSuggested, firstDt,
                   enteredWith, goodState, goodWellState, stateAfterSolve,
                   wellStateAfterSolve, convergedSum, numConverged,
                   consecFails, firstFailedDt, prevFailed, clockBefore, attempts,
                   reportSteps>>
    /\ UNCHANGED otherThanStep

StepInit ==
    /\ restart_factor_ \in RestartFactors
    /\ growth_factor_ \in GrowthFactors
    /\ max_growth_ \in MaxGrowths
    /\ max_time_step_ \in MaxTimeSteps
    /\ solver_restart_max_ \in RestartMaxima
    /\ full_timestep_initially_ \in BOOLEAN
    /\ timestep_after_event_ \in TimestepsAfterEvent
    /\ suggested_next_timestep_ \in InitialTimesteps
    /\ pc = "constructed"
    /\ timestep = NoTime /\ event = FALSE
    /\ substepTimer = NoTimer
    /\ state = 0 /\ well_state = 0 /\ last_state = NoState /\ last_well_state = NoState
    /\ restarts = 0
    /\ report = DefaultReport /\ substepReport = DefaultReport
    /\ dt = NoTime /\ dtEstimate = NoTime /\ newTimeStep = NoTime
    /\ cause_of_failure = "" /\ caught = None /\ thrownAt = None
    /\ escaped = NoException
    /\ firstSuggested = NoTime /\ firstDt = NoTime /\ enteredWith = NoTime
    /\ goodState = NoState /\ goodWellState = NoState
    /\ stateAfterSolve = NoState /\ wellStateAfterSolve = NoState
    /\ persisted = NoTime
    /\ convergedSum = Zero /\ numConverged = 0
    /\ consecFails = 0 /\ firstFailedDt = NoTime /\ prevFailed = FALSE
    /\ clockBefore = Zero
    /\ attempts = 0 /\ reportSteps = 0

\* ------------------------------------------------------------------------
\* BlackoilModelEbos: convergence check, state update and the Newton
\* iteration, for an oil-water run (Water and Oil active, no gas, solvent or
\* polymer) on the grid of NumCells cells and NumWells wells that the
\* converged branch of nonlinearIteration is written for.
\* ------------------------------------------------------------------------
\* cells and wells addressed by the converged branch of nonlinearIteration
NumCells == 9
NumWells == 2
\* largest iteration index handed to nonlinearIteration in one time step
MaxNewtonIter == 1

Cells == 1..NumCells
Wells == 1..NumWells
Comps == {"water", "oil"}

RECURSIVE RSumTo(_, _)
RSumTo(f, n) == IF n = 0 THEN Zero ELSE RAdd(RSumTo(f, n - 1), f[n])

RECURSIVE RMaxTo(_, _, _)
RMaxTo(f, n, lowest) == IF n = 0 THEN lowest ELSE RMax(RMaxTo(f, n - 1, lowest), f[n])

\* param_ of the model and of the well model
tolerance_mb_         == R(1, 10)
tolerance_cnv_        == R(1, 2)
tolerance_wells_      == R(1, 4)
max_residual_allowed_ == R(100, 1)
dp_max_rel_           == R(1, 5)
ds_max_               == R(1, 5)
dWellFractionMax      == R(1, 5)
dbhpMaxRel            == One
\* nonlinear_solver.relaxIncrement() and relaxMax()
relaxIncrement        == R(3, 10)
relaxMax              == R(1, 2)

\* what the grid simulator knows of a cell: pore volume and inverse formation
\* volume factors
PoreVolume(c) == IF c = 1 THEN R(4, 1) ELSE R(2, 1)
InvB(c, comp) == IF comp = "water" THEN One ELSE R(1, 2)

\* the three residual measures of every component
ResidualNorms(resid, wres, stepLength) ==
    LET pvSum == RSumTo([c \in Cells |-> PoreVolume(c)], NumCells)
        B_avg(k) == RDiv(RSumTo([c \in Cells |-> RDiv(One, InvB(c, k))], NumCells),
                         R(NumCells, 1))
        R_sum(k) == RSumTo([c \in Cells |-> resid[c][k]], NumCells)
        maxCoeff(k) ==
            RMaxTo([c \in Cells |-> RDiv(RAbs(resid[c][k]), PoreVolume(c))],
                   NumCells, RDiv(RAbs(resid[1][k]), PoreVolume(1)))
        maxNormWell(k) == RMaxTo([w \in Wells |-> RAbs(wres[k][w])], NumWells, Zero)
    IN  [k \in Comps |->
            [CNV |-> RMul(RMul(B_avg(k), stepLength), maxCoeff(k)),
             mass_balance_residual |->
                 RDiv(RMul(RAbs(RMul(B_avg(k), R_sum(k))), stepLength), pvSum),
             well_flux_residual |-> RMul(B_avg(k), maxNormWell(k))]]

\* getConvergence that never looks at the cell based residual
GetConvergenceWithoutCNV(it, r) ==
    LET converged_MB == \A k \in Comps : RLt(r[k].mass_balance_residual, tolerance_mb_)
        converged_Well == \A k \in Comps : RLt(r[k].well_flux_residual, tolerance_wells_)
        tooLarge == \E k \in Comps :
                        \/ RGt(r[k].mass_balance_residual, max_residual_allowed_)
                        \/ RGt(r[k].CNV, max_residual_allowed_)
                        \/ RGt(r[k].well_flux_residual, max_residual_allowed_)
    IN  [converged |-> converged_MB /\ converged_Well,
         throws |-> tooLarge,
         residual_norms |-> [k \in Comps |-> r[k].CNV]]

\* getConvergence, from the residual measures r on: the value returned,
\* whether NumericalProblem is thrown instead, and the norms handed back
GetConvergence(it, r) ==
    LET converged_MB == \A k \in Comps : RLt(r[k].mass_balance_residual, tolerance_mb_)
        converged_CNV == \A k \in Comps : RLt(r[k].CNV, tolerance_cnv_)
        converged_Well == \A k \in Comps : RLt(r[k].well_flux_residual, tolerance_wells_)
        converged == IF it < max_strict_iter_
                     THEN (converged_MB /\ converged_Well) /\ converged_CNV
                     ELSE converged_MB /\ converged_Well
        tooLarge == \E k \in Comps :
                        \/ RGt(r[k].mass_balance_residual, max_residual_allowed_)
                        \/ RGt(r[k].CNV, max_residual_allowed_)
                        \/ RGt(r[k].well_flux_residual, max_residual_allowed_)
    IN  [converged |-> converged,
         throws |-> tooLarge,
         residual_norms |-> [k \in Comps |-> r[k].CNV]]

\* report.converged as nonlinearIteration sets it
ReportConverged(getConvergence, it, targetsConverged) ==
    LET afterMinIter == getConvergence /\ it > minIter
    IN  IF groupControlActive THEN afterMinIter /\ targetsConverged ELSE afterMinIter

\* updateState for an oil-water run: dx holds dp and dsw of every cell
UpdateState(dx, rs) ==
    LET step(c) == IF RAbs(dx[c].dsw) = Zero
                   THEN One
                   ELSE RMin(RDiv(ds_max_, RAbs(dx[c].dsw)), One)
        sign_dp(c) == IF RGt(dx[c].dp, Zero) THEN One ELSE RNeg(One)
        limited(c) == RMul(sign_dp(c),
                           RMin(RAbs(dx[c].dp), RMul(RAbs(rs.pressure[c]), dp_max_rel_)))
    IN  [pressure |-> [c \in Cells |-> RMax(RSub(rs.pressure[c], limited(c)), Zero)],
         sw |-> [c \in Cells |-> RSub(rs.sw[c], RMul(step(c), dx[c].dsw))],
         so |-> [c \in Cells |-> RSub(rs.so[c], RMul(step(c), RNeg(dx[c].dsw)))]]

\* convertInput for an oil-water run: the primary variables of every cell
ConvertInput(rs) ==
    [c \in Cells |-> [waterSaturationIdx |-> rs.sw[c],
                      pressureSwitchIdx |-> rs.pressure[c]]]

\* the grid simulator's cache of intensive quantities: whether it is valid and
\* the solution its entries were computed from
InvalidateIntensiveQuantitiesCache(cache) == [cache EXCEPT !.valid = FALSE]
\* linearize() computes the entries the cache does not hold and works on the
\* cached ones
Linearize(cache, solution) ==
    IF cache.valid THEN cache ELSE [valid |-> TRUE, solution |-> solution]

\* StatePushed without the test of timer.lastStepFailed()
StatePushedOnlyInitially(it) ==
    simTimer.reportStepNum = 0 /\ it = 0

\* assembleMassBalanceEq hands the state to the grid simulator only here
StatePushed(it) ==
    (simTimer.lastStepFailed \/ simTimer.reportStepNum = 0) /\ it = 0

\* ------------------------------------------------------------------------
\* StandardWellsDense::updateWellState for the same oil-water run: well 1
\* injects water, well 2 produces; no well has a THP control.
\* ------------------------------------------------------------------------
Phases == {"water", "oil"}
WellType(w) == IF w = 1 THEN "INJECTOR" ELSE "PRODUCER"
comp_frac(w) == [water |-> One, oil |-> Zero]
\* the scaling of the fractions of the three phases
g == [water |-> One, oil |-> One, gas |-> R(1, 100)]
\* floor of the bottom-hole pressure under rate control
BhpFloor == R(100000, 1)

\* the ordered controls of a well: well_controls_iget_type, _target, _distr
WellControls(w) ==
    IF WellType(w) = "INJECTOR"
    THEN << [type |-> "BHP", target |-> R(300000, 1), distr |-> [water |-> One, oil |-> Zero]],
            [type |-> "SURFACE_RATE", target |-> R(1, 50), distr |-> [water |-> One, oil |-> Zero]],
            [type |-> "RESERVOIR_RATE", target |-> R(1, 50), distr |-> [water |-> One, oil |-> Zero]] >>
    ELSE << [type |-> "BHP", target |-> R(150000, 1), distr |-> [water |-> Zero, oil |-> Zero]],
            [type |-> "SURFACE_RATE", target |-> R(-1, 50), distr |-> [water |-> Zero, oil |-> One]],
            [type |-> "RESERVOIR_RATE", target |-> R(-1, 50), distr |-> [water |-> One, oil |-> One]] >>

\* a limited update of a fraction: xvar_well_old - sign * min(|dwells|, dFLimit)
LimitedFraction(old, dwell) ==
    LET sign == IF RGt(dwell, Zero) THEN One ELSE RNeg(One)
    IN  RSub(old, RMul(sign, RMin(RAbs(dwell), dWellFractionMax)))

\* the fractions of water and oil after negative ones have been removed
NormalizedFractions(wfrac) ==
    LET F0 == [water |-> wfrac, oil |-> RSub(One, wfrac)]
        F1 == IF RLt(F0.water, Zero)
              THEN [water |-> Zero, oil |-> RDiv(F0.oil, RSub(One, F0.water))]
              ELSE F0
    IN  IF RLt(F1.oil, Zero)
        THEN [water |-> RDiv(F1.water, RSub(One, F1.oil)), oil |-> Zero]
        ELSE F1

\* the fractions as the rates use them: divided by distr or by g
ScaledFractions(F, ctrl) ==
    IF ctrl.type = "RESERVOIR_RATE"
    THEN [p \in Phases |-> IF RGt(ctrl.distr[p], Zero)
                           THEN RDiv(F[p], ctrl.distr[p]) ELSE Zero]
    ELSE [p \in Phases |-> RDiv(F[p], g[p])]

\* the first well variable: total rate under BHP control, bottom-hole
\* pressure under rate control
UpdatedXvarWell(old, dwell, ctrl) ==
    IF ctrl.type = "BHP"
    THEN RSub(old, dwell)
    ELSE LET sign == IF RGt(dwell, Zero) THEN One ELSE RNeg(One)
             dx1_limited == RMul(sign, RMin(RAbs(dwell), RMul(RAbs(old), dbhpMaxRel)))
         IN  RMax(RSub(old, dx1_limited), BhpFloor)

\* the rates of a well from its first variable and its scaled fractions
UpdatedWellRates(w, xvar, F, ctrl) ==
    CASE ctrl.type = "BHP" ->
            IF WellType(w) = "INJECTOR"
            THEN [p \in Phases |-> RMul(comp_frac(w)[p], xvar)]
            ELSE [p \in Phases |-> RMul(xvar, F[p])]
      [] ctrl.type = "SURFACE_RATE" ->
            IF WellType(w) = "PRODUCER"
            THEN LET F_target == RAdd(RMul(ctrl.distr.water, F.water),
                                      RMul(ctrl.distr.oil, F.oil))
                 IN  [p \in Phases |-> RDiv(RMul(F[p], ctrl.target), F_target)]
            ELSE [p \in Phases |-> RMul(comp_frac(w)[p], ctrl.target)]
      [] OTHER -> [p \in Phases |-> RMul(F[p], ctrl.target)]

\* updateWellState: dwells holds the update of the three variables of a well
UpdateWellState(dwells, ws) ==
    LET ctrl(w) == WellControls(w)[ws.currentControls[w]]
        F(w) == NormalizedFractions(
                    LimitedFraction(ws.wellSolutions[w].WFrac, dwells[w].WFrac))
        xvar(w) == UpdatedXvarWell(ws.wellSolutions[w].XvarWell,
                                   dwells[w].XvarWell, ctrl(w))
    IN  [wellSolutions |->
             [w \in Wells |-> [XvarWell |-> xvar(w),
                               WFrac |-> F(w).water,
                               GFrac |-> ws.wellSolutions[w].GFrac]],
         wellRates |->
             [w \in Wells |-> UpdatedWellRates(w, xvar(w),
                                               ScaledFractions(F(w), ctrl(w)), ctrl(w))],
         bhp |-> [w \in Wells |-> IF ctrl(w).type = "BHP" THEN ws.bhp[w] ELSE xvar(w)],
         thp |-> [w \in Wells |-> Zero],
         currentControls |-> ws.currentControls]

\* ------------------------------------------------------------------------
\* The perturbations of the converged branch of nonlinearIteration
\* ------------------------------------------------------------------------
\* pert_sizes by StateTypes (WATER_SATURATION = 0, OIL_PRESSURE = 1) and
\* pert_sizes2 by the position of the well variable
pert_sizes == [dsw |-> R(-1, 1000000), dp |-> R(-10, 1)]
pert_sizes2 == <<R(-1, 100), R(-1, 100), R(-10000, 1)>>
WellVariablePositions == <<"XvarWell", "WFrac", "GFrac">>

ZeroDx == [c \in Cells |-> [dp |-> Zero, dsw |-> Zero]]
ZeroDw == [w \in Wells |-> [XvarWell |-> Zero, WFrac |-> Zero, GFrac |-> Zero]]

\* dx of the last pass of the loop over cells: the last cell, the oil
\* pressure, the forward half step
LastCellPerturbation ==
    [ZeroDx EXCEPT ![NumCells].dp = RDiv(pert_sizes.dp, R(2, 1))]

\* dw of pass n (from 0) of the loop over wells, variables and half steps
WellPerturbation(n) ==
    LET well == (n \div 6) + 1
        stateType == (n % 6) \div 2
        i == n % 2
        half == RDiv(pert_sizes2[stateType + 1], R(2, 1))
    IN  [ZeroDw EXCEPT ![well][WellVariablePositions[stateType + 1]] =
                            IF i = 0 THEN RNeg(half) ELSE half]

\* the well_state after the first n passes of the loop over wells
RECURSIVE PerturbedWellState(_, _)
PerturbedWellState(ws, n) ==
    IF n = 0 THEN ws
    ELSE CHOOSE after \in { UpdateWellState(WellPerturbation(n - 1), before) :
                                before \in {PerturbedWellState(ws, n - 1)} } : TRUE

\* ------------------------------------------------------------------------
\* BlackoilModelEbos::nonlinearIteration, called with iteration = 0, 1, ... by
\* the nonlinear solver until it reports convergence or throws
\* ------------------------------------------------------------------------
DefaultIterReport ==
    [converged |-> FALSE, total_linearizations |-> 0, total_newton_iterations |-> 0]

\* residuals the linearizer can leave in a cell, by name
ResidualField(name, k) ==
    CASE name = "zero"    -> [c \in Cells |-> Zero]
      [] name = "small"   -> [c \in Cells |-> R(1, 100)]
      [] name = "edge"    -> [c \in Cells |-> IF k = "oil" THEN R(1, 45) ELSE R(2, 45)]
      [] name = "uniform" -> [c \in Cells |-> R(1, 10)]
      [] name = "dipole"  -> [c \in Cells |-> IF c = 1 THEN One
                                              ELSE IF c = NumCells THEN RNeg(One) ELSE Zero]
      [] OTHER            -> [c \in Cells |-> IF c = 1 THEN R(100, 1)
                                              ELSE IF c = NumCells THEN R(-100, 1) ELSE Zero]

\* the residuals an assembly leaves: a field per component, and one entry of
\* the well residual that is not zero
Assembled ==
    { [water |-> "zero",    oil |-> "zero",    comp |-> "oil",   well |-> 1, value |-> Zero],
      [water |-> "small",   oil |-> "small",   comp |-> "water", well |-> 2, value |-> R(1, 10)],
      [water |-> "zero",    oil |-> "edge",    comp |-> "oil",   well |-> 1, value |-> Zero],
      [water |-> "uniform", oil |-> "zero",    comp |-> "oil",   well |-> 1, value |-> Zero],
      [water |-> "zero",    oil |-> "dipole",  comp |-> "oil",   well |-> 1, value |-> Zero],
      [water |-> "huge",    oil |-> "small",   comp |-> "oil",   well |-> 1, value |-> Zero],
      [water |-> "small",   oil |-> "zero",    comp |-> "water", well |-> 1, value |-> R(1, 4)],
      [water |-> "zero",    oil |-> "small",   comp |-> "oil",   well |-> 2, value |-> One],
      [water |-> "zero",    oil |-> "zero",    comp |-> "oil",   well |-> 2, value |-> R(100, 1)] }

EbosResidOf(a) ==
    [c \in Cells |-> [k \in Comps |-> ResidualField(a[k], k)[c]]]

WellResidualOf(a) ==
    [k \in Comps |-> [w \in Wells |-> IF k = a.comp /\ w = a.well THEN a.value ELSE Zero]]

\* Newton updates the linear solver can hand back, after stabilization, and
\* what detectOscillations said of the iteration
NewtonUpdates ==
    { [x |-> [c \in Cells |-> [dp |-> R(10, 1), dsw |-> R(1, 10)]],
       xw |-> [w \in Wells |-> [XvarWell |-> R(1, 100), WFrac |-> R(1, 10), GFrac |-> Zero]],
       isOscillate |-> FALSE],
      [x |-> [c \in Cells |-> [dp |-> R(-100, 1), dsw |-> R(-1, 2)]],
       xw |-> [w \in Wells |-> [XvarWell |-> R(-1, 100), WFrac |-> R(-1, 2), GFrac |-> Zero]],
       isOscillate |-> TRUE] }

\* a relaxation with no lower bound
RelaxationUnbounded(current, isOscillate) ==
    IF isOscillate THEN RSub(current, relaxIncrement) ELSE current
\* the relaxation after detectOscillations
Relaxation(current, isOscillate) ==
    IF isOscillate THEN RMax(RSub(current, relaxIncrement), relaxMax) ELSE current

HistoryAtEntry == IF iteration = 0 THEN << >> ELSE residual_norms_history_
RelaxationAtEntry == IF iteration = 0 THEN One ELSE current_relaxation_
SolutionAfterAssemble ==
    IF StatePushed(iteration) THEN ConvertInput(reservoir_state) ELSE ebosSolution
\* the cache after the linearize() of assembleMassBalanceEq
CacheAfterAssemble ==
    Linearize(IF StatePushed(iteration)
              THEN InvalidateIntensiveQuantitiesCache(intensiveQuantitiesCache)
              ELSE intensiveQuantitiesCache,
              SolutionAfterAssemble)

\* what nonlinearIteration does before assemble, and assemble's hand-over of
\* the state to the grid simulator
BeginIteration ==
    /\ newtonPc = "iterating"
    /\ iteration <= MaxNewtonIter
    /\ iterationRun' = iteration
    /\ linearizedOn' = CacheAfterAssemble.solution
    /\ linearizedFor' = reservoir_state
    /\ relaxationBefore' = current_relaxation_
    /\ UNCHANGED <<minIter, max_strict_iter_, groupControlActive, simTimer>>
    /\ UNCHANGED otherThanNewton

\* an exception leaves nonlinearIteration: nothing but the bookkeeping of
\* the entry and the hand-over of assemble has happened
IterationThrows(kind) ==
    /\ newtonPc' = "threw"
    /\ newtonEscaped' = kind
    /\ current_relaxation_' = RelaxationAtEntry
    /\ oscillationDetected' = FALSE
    /\ ebosSolution' = SolutionAfterAssemble
    /\ intensiveQuantitiesCache' = CacheAfterAssemble
    /\ iterReport' = DefaultIterReport
    /\ UNCHANGED <<iteration, reservoir_state, newton_well_state, solutionPerturbed>>

\* the not converged branch: the Newton update is applied and pushed
IterationUpdates(update) ==
    /\ current_relaxation_' = Relaxation(RelaxationAtEntry, update.isOscillate)
    /\ oscillationDetected' = update.isOscillate
    /\ reservoir_state' = UpdateState(update.x, reservoir_state)
    /\ newton_well_state' = UpdateWellState(update.xw, newton_well_state)
    /\ ebosSolution' = ConvertInput(reservoir_state')
    /\ intensiveQuantitiesCache' = InvalidateIntensiveQuantitiesCache(CacheAfterAssemble)
    /\ iterReport' = [converged |-> FALSE, total_linearizations |-> 1,
                      total_newton_iterations |-> 1]
    /\ iteration' = iteration + 1
    /\ UNCHANGED <<newtonPc, newtonEscaped, solutionPerturbed>>

\* the converged branch: the loop over the cells perturbs copies of
\* reservoir_state and pushes them, the loop over the wells perturbs
\* well_state itself and pushes a copy of reservoir_state
IterationConverged ==
    /\ current_relaxation_' = RelaxationAtEntry
    /\ oscillationDetected' = FALSE
    /\ solutionPerturbed' = ConvertInput(UpdateState(LastCellPerturbation, reservoir_state))
    /\ newton_well_state' = PerturbedWellState(newton_well_state, NumWells * 3 * 2)
    /\ ebosSolution' = ConvertInput(reservoir_state)
    /\ intensiveQuantitiesCache' = [valid |-> TRUE, solution |-> ebosSolution']
    /\ iterReport' = [converged |-> TRUE, total_linearizations |-> 1,
                      total_newton_iterations |-> 0]
    /\ newtonPc' = "converged"
    /\ UNCHANGED <<iteration, reservoir_state, newtonEscaped>>

nonlinearIteration ==
    /\ BeginIteration
    /\ \/ \* assemble throws: thrown on
          /\ IterationThrows("NumericalProblem")
          /\ residual_norms_history_' = HistoryAtEntry
          /\ UNCHANGED <<ebosResid, wellResidual, groupTargetConverged,
                         reservoirStateAtCheck, wellStateAtCheck, solutionAtCheck>>
       \/ \E a \in Assembled :
          \E resid \in {EbosResidOf(a)}, wres \in {WellResidualOf(a)} :
          \E r \in {ResidualNorms(resid, wres, simTimer.currentStepLength)} :
          \E check \in {GetConvergence(iteration, r)} :
             /\ ebosResid' = resid
             /\ wellResidual' = wres
             /\ reservoirStateAtCheck' = reservoir_state
             /\ wellStateAtCheck' = newton_well_state
             /\ solutionAtCheck' = SolutionAfterAssemble
             /\ IF check.throws
                THEN \* getConvergence throws NumericalProblem
                     /\ IterationThrows("NumericalProblem")
                     /\ residual_norms_history_' = HistoryAtEntry
                     /\ UNCHANGED groupTargetConverged
                ELSE /\ residual_norms_history_' =
                            Append(HistoryAtEntry, check.residual_norms)
                     /\ \E targetsConverged \in
                              IF groupControlActive THEN BOOLEAN ELSE {groupTargetConverged} :
                           /\ groupTargetConverged' = targetsConverged
                           /\ IF ReportConverged(check.converged, iteration, targetsConverged)
                              THEN IterationConverged
                              ELSE \/ \E update \in NewtonUpdates : IterationUpdates(update)
                                   \/ \* solveJacobianSystem throws: thrown on
                                      IterationThrows("LinearSolverProblem")

\* ------------------------------------------------------------------------
\* The start of a time step
\* ------------------------------------------------------------------------
\* a reservoir state, and the one of a failed attempt the grid simulator may
\* still hold
InitialReservoirState ==
    [pressure |-> [c \in Cells |-> R(200, 1)],
     sw |-> [c \in Cells |-> R(1, 5)],
     so |-> [c \in Cells |-> R(4, 5)]]
FailedReservoirState ==
    [pressure |-> [c \in Cells |-> R(150, 1)],
     sw |-> [c \in Cells |-> R(2, 5)],
     so |-> [c \in Cells |-> R(3, 5)]]

\* well states whose rates agree with the well variables: both wells under
\* their control number current, the producer with water fraction wfrac
InitialWellState(current, wfrac) ==
    UpdateWellState(ZeroDw,
        [wellSolutions |->
             [w \in Wells |->
                 [XvarWell |-> IF WellControls(w)[current].type = "BHP"
                               THEN (IF WellType(w) = "INJECTOR" THEN R(1, 50) ELSE R(-1, 50))
                               ELSE R(200000, 1),
                  WFrac |-> IF WellType(w) = "INJECTOR" THEN One ELSE wfrac,
                  GFrac |-> Zero]],
         wellRates |-> [w \in Wells |-> [p \in Phases |-> Zero]],
         bhp |-> [w \in Wells |-> IF WellControls(w)[current].type = "BHP"
                                  THEN WellControls(w)[current].target
                                  ELSE R(200000, 1)],
         thp |-> [w \in Wells |-> Zero],
         currentControls |-> [w \in Wells |-> current]])

IterationLimits == { [minIter |-> 0, max_strict_iter_ |-> 1],
                     [minIter |-> 0, max_strict_iter_ |-> 2] }
\* the timer handed to nonlinearIteration, the control number both wells are
\* under and the water fraction of the producer
TimeStepStarts ==
    { [timer |-> [lastStepFailed |-> FALSE, reportStepNum |-> 1, currentStepLength |-> R(5, 1)],
       current |-> 1, wfrac |-> Zero],
      [timer |-> [lastStepFailed |-> TRUE, reportStepNum |-> 1, currentStepLength |-> R(5, 1)],
       current |-> 2, wfrac |-> R(3, 10)],
      [timer |-> [lastStepFailed |-> FALSE, reportStepNum |-> 0, currentStepLength |-> R(5, 1)],
       current |-> 3, wfrac |-> Zero],
      [timer |-> [lastStepFailed |-> TRUE, reportStepNum |-> 1, currentStepLength |-> R(5, 1)],
       current |-> 2, wfrac |-> Zero] }

NewtonStart(limits, group, start) ==
    /\ minIter = limits.minIter
    /\ max_strict_iter_ = limits.max_strict_iter_
    /\ groupControlActive = group
    /\ simTimer = start.timer
    /\ newtonPc = "iterating"
    /\ iteration = 0
    /\ reservoir_state = InitialReservoirState
    /\ newton_well_state = InitialWellState(start.current, start.wfrac)
    /\ ebosSolution = IF start.timer.lastStepFailed
                      THEN ConvertInput(FailedReservoirState)
                      ELSE ConvertInput(InitialReservoirState)
    /\ ebosResid = [c \in Cells |-> [k \in Comps |-> Zero]]
    /\ wellResidual = [k \in Comps |-> [w \in Wells |-> Zero]]
    /\ groupTargetConverged = FALSE
    /\ residual_norms_history_ = << >>
    /\ current_relaxation_ = IF start.timer.lastStepFailed THEN relaxMax ELSE One
    /\ relaxationBefore = current_relaxation_
    /\ oscillationDetected = FALSE
    /\ iterReport = DefaultIterReport
    /\ newtonEscaped = None
    /\ iterationRun = 0 - 1
    /\ reservoirStateAtCheck = reservoir_state
    /\ wellStateAtCheck = newton_well_state
    /\ solutionAtCheck = ebosSolution
    /\ solutionPerturbed = ebosSolution
    /\ intensiveQuantitiesCache = [valid |-> TRUE, solution |-> ebosSolution]
    /\ linearizedOn = ebosSolution
    /\ linearizedFor = reservoir_state

NewtonInit ==
    \E limits \in IterationLimits, group \in BOOLEAN, start \in TimeStepStarts :
        NewtonStart(limits, group, start)

\* ------------------------------------------------------------------------
\* BlackoilModelEbos::updateState for a run with water, oil and gas: the
\* body of the loop over the cells, which takes every cell by itself. No
\* polymer.
\* ------------------------------------------------------------------------
\* calls of updateState followed on one cell
MaxUpdates == 2

\* const double epsilon = 1e-4
epsilon == R(1, 10000)

\* the saturated dissolution and vaporization factors the fluid system
\* answers for a pressure
RsSat(p) == RDiv(p, R(100, 1))
RvSat(p) == RDiv(p, R(1000, 1))

\* ChoppedUpdate with a step of its own for every saturation
ChoppedSeparately(dx, c) ==
    LET sign_dp == IF RGt(dx.dp, Zero) THEN One ELSE RNeg(One)
        tag == c.hydroCarbonState
        dsw == dx.dsw
        dsg == CASE tag = "GasAndOil" -> dx.dxvar
                 [] tag = "OilOnly"   -> Zero
                 [] OTHER             -> RSub(Zero, dsw)
        drs == IF tag = "OilOnly" THEN dx.dxvar ELSE Zero
        drv == IF tag = "GasOnly" THEN dx.dxvar ELSE Zero
        dss == IF has_solvent_ THEN dx.dss ELSE Zero
        dso == RSub(RSub(RSub(Zero, dsw), dsg), dss)
        maxVal == RMax(RAbs(dss), RMax(RAbs(dsg), RMax(RAbs(dsw), Zero)))
        step == IF maxVal = Zero THEN One ELSE RMin(RDiv(ds_max_, maxVal), One)
        own(d) == IF d = Zero THEN One ELSE RMin(RDiv(ds_max_, RAbs(d)), One)
    IN  [pressure |-> RMax(RSub(c.pressure,
                                RMul(sign_dp, RMin(RAbs(dx.dp),
                                                   RMul(RAbs(c.pressure), dp_max_rel_)))),
                           Zero),
         sw |-> RSub(c.sw, RMul(own(dsw), dsw)),
         sg |-> RSub(c.sg, RMul(own(dsg), dsg)),
         ss |-> IF has_solvent_ THEN RSub(c.ss, RMul(own(dss), dss)) ELSE c.ss,
         so |-> RSub(c.so, RMul(step, dso)),
         rs |-> IF has_disgas_ THEN RMax(RSub(c.rs, drs), Zero) ELSE c.rs,
         rv |-> IF has_vapoil_ THEN RMax(RSub(c.rv, drv), Zero) ELSE c.rv,
         hydroCarbonState |-> tag,
         step |-> step, dsw |-> dsw, dsg |-> dsg, dss |-> dss]

\* the cell after the pressure update, the Appleyard chop of the saturations
\* and the update of rs and rv; step and the increments of the saturations
\* are kept with it
ChoppedUpdate(dx, c) ==
    LET sign_dp == IF RGt(dx.dp, Zero) THEN One ELSE RNeg(One)
        tag == c.hydroCarbonState
        dsw == dx.dsw
        dsg == CASE tag = "GasAndOil" -> dx.dxvar
                 [] tag = "OilOnly"   -> Zero
                 [] OTHER             -> RSub(Zero, dsw)
        drs == IF tag = "OilOnly" THEN dx.dxvar ELSE Zero
        drv == IF tag = "GasOnly" THEN dx.dxvar ELSE Zero
        dss == IF has_solvent_ THEN dx.dss ELSE Zero
        dso == RSub(RSub(RSub(Zero, dsw), dsg), dss)
        maxVal == RMax(RAbs(dss), RMax(RAbs(dsg), RMax(RAbs(dsw), Zero)))
        \* dsMax()/maxVal is infinite for maxVal = 0 and std::min gives 1
        step == IF maxVal = Zero THEN One ELSE RMin(RDiv(ds_max_, maxVal), One)
    IN  [pressure |-> RMax(RSub(c.pressure,
                                RMul(sign_dp, RMin(RAbs(dx.dp),
                                                   RMul(RAbs(c.pressure), dp_max_rel_)))),
                           Zero),
         sw |-> RSub(c.sw, RMul(step, dsw)),
         sg |-> RSub(c.sg, RMul(step, dsg)),
         ss |-> IF has_solvent_ THEN RSub(c.ss, RMul(step, dss)) ELSE c.ss,
         so |-> RSub(c.so, RMul(step, dso)),
         rs |-> IF has_disgas_ THEN RMax(RSub(c.rs, drs), Zero) ELSE c.rs,
         rv |-> IF has_vapoil_ THEN RMax(RSub(c.rv, drv), Zero) ELSE c.rv,
         hydroCarbonState |-> tag,
         step |-> step, dsw |-> dsw, dsg |-> dsg, dss |-> dss]

\* the fields of a cell of reservoir_state
CellOf(u) ==
    [pressure |-> u.pressure, sw |-> u.sw, sg |-> u.sg, so |-> u.so, ss |-> u.ss,
     rs |-> u.rs, rv |-> u.rv, hydroCarbonState |-> u.hydroCarbonState]

SolventOf(u) == IF has_solvent_ THEN u.ss ELSE Zero

\* case HydroCarbonState::GasAndOil with the tests of has_disgas_ and
\* has_vapoil_ left out
SwitchGasAndOilAlways(u) ==
    LET rs == RsSat(u.pressure)
        rv == RvSat(u.pressure)
        sat == [CellOf(u) EXCEPT !.rs = rs, !.rv = rv]
    IN  IF RGt(u.sw, RSub(One, epsilon))
        THEN [kind |-> "none", cell |-> sat]
        ELSE IF RLe(u.sg, Zero)
        THEN [kind |-> "gasGone",
              cell |-> [sat EXCEPT !.hydroCarbonState = "OilOnly",
                                   !.sg = Zero,
                                   !.so = RSub(RSub(One, u.sw), SolventOf(u)),
                                   !.rs = RMul(rs, RSub(One, epsilon))]]
        ELSE IF RLe(u.so, Zero)
        THEN [kind |-> "oilGone",
              cell |-> [sat EXCEPT !.hydroCarbonState = "GasOnly",
                                   !.so = Zero,
                                   !.sg = RSub(RSub(One, u.sw), SolventOf(u)),
                                   !.rv = RMul(rv, RSub(One, epsilon))]]
        ELSE [kind |-> "none", cell |-> sat]

\* case HydroCarbonState::GasAndOil of the phase translation
SwitchGasAndOil(u) ==
    LET rs == RsSat(u.pressure)
        rv == RvSat(u.pressure)
        sat == [CellOf(u) EXCEPT !.rs = rs, !.rv = rv]
    IN  IF RGt(u.sw, RSub(One, epsilon))
        THEN \* water only i.e. do nothing
             [kind |-> "none", cell |-> sat]
        ELSE IF RLe(u.sg, Zero) /\ has_disgas_
        THEN [kind |-> "gasGone",
              cell |-> [sat EXCEPT !.hydroCarbonState = "OilOnly",
                                   !.sg = Zero,
                                   !.so = RSub(RSub(One, u.sw), SolventOf(u)),
                                   !.rs = RMul(rs, RSub(One, epsilon))]]
        ELSE IF RLe(u.so, Zero) /\ has_vapoil_
        THEN [kind |-> "oilGone",
              cell |-> [sat EXCEPT !.hydroCarbonState = "GasOnly",
                                   !.so = Zero,
                                   !.sg = RSub(RSub(One, u.sw), SolventOf(u)),
                                   !.rv = RMul(rv, RSub(One, epsilon))]]
        ELSE [kind |-> "none", cell |-> sat]

\* case HydroCarbonState::OilOnly that leaves rs as the update made it
SwitchOilOnlyKeepsRs(u) ==
    IF RGt(u.sw, RSub(One, epsilon))
    THEN [kind |-> "waterOnly",
          cell |-> [CellOf(u) EXCEPT !.rs = Zero, !.rv = Zero,
                                     !.hydroCarbonState = "GasAndOil"]]
    ELSE IF RGt(u.rs, RMul(RsSat(u.pressure), RAdd(One, epsilon)))
    THEN [kind |-> "rsAboveSat",
          cell |-> [CellOf(u) EXCEPT !.hydroCarbonState = "GasAndOil",
                                     !.sg = epsilon,
                                     !.so = RSub(u.so, epsilon)]]
    ELSE [kind |-> "none", cell |-> CellOf(u)]

\* case HydroCarbonState::OilOnly of the phase translation
SwitchOilOnly(u) ==
    IF RGt(u.sw, RSub(One, epsilon))
    THEN \* water only change to Sg
         [kind |-> "waterOnly",
          cell |-> [CellOf(u) EXCEPT !.rs = Zero, !.rv = Zero,
                                     !.hydroCarbonState = "GasAndOil"]]
    ELSE IF RGt(u.rs, RMul(RsSat(u.pressure), RAdd(One, epsilon)))
    THEN [kind |-> "rsAboveSat",
          cell |-> [CellOf(u) EXCEPT !.hydroCarbonState = "GasAndOil",
                                     !.sg = epsilon,
                                     !.so = RSub(u.so, epsilon),
                                     !.rs = RsSat(u.pressure)]]
    ELSE [kind |-> "none", cell |-> CellOf(u)]

\* case HydroCarbonState::GasOnly of the phase translation
SwitchGasOnly(u) ==
    IF RGt(u.sw, RSub(One, epsilon))
    THEN \* water only change to Sg
         [kind |-> "waterOnly",
          cell |-> [CellOf(u) EXCEPT !.rs = Zero, !.rv = Zero,
                                     !.hydroCarbonState = "GasAndOil"]]
    ELSE IF RGt(u.rv, RMul(RvSat(u.pressure), RAdd(One, epsilon)))
    THEN [kind |-> "rvAboveSat",
          cell |-> [CellOf(u) EXCEPT !.hydroCarbonState = "GasAndOil",
                                     !.so = epsilon,
                                     !.rv = RvSat(u.pressure),
                                     !.sg = RSub(u.sg, epsilon)]]
    ELSE [kind |-> "none", cell |-> CellOf(u)]

\* the phase translation sg <-> rs, sg <-> rv of a cell after its update
PhaseTranslation(u) ==
    CASE u.hydroCarbonState = "GasAndOil" -> SwitchGasAndOil(u)
      [] u.hydroCarbonState = "OilOnly"   -> SwitchOilOnly(u)
      [] OTHER                            -> SwitchGasOnly(u)

\* one call of updateState, seen from one cell
updateState(dx) ==
    /\ updateCount < MaxUpdates
    /\ \E u \in {ChoppedUpdate(dx, cell)} :
       \E t \in {PhaseTranslation(u)} :
          /\ chopped' = u
          /\ cell' = t.cell
          /\ switched' = t.kind
    /\ cellBefore' = cell
    /\ switchedBefore' = switched
    /\ dxCell' = dx
    /\ updateCount' = updateCount + 1
    /\ UNCHANGED <<has_solvent_, has_disgas_, has_vapoil_>>
    /\ UNCHANGED otherThanUpdate

\* a cell as the simulator can hold it: the saturations sum to 1, a cell of
\* oil only has no gas, a cell of gas only no oil, a cell of gas and oil is
\* saturated, a cell of water only has rs = rv = 0
CellStarts(solvent) ==
    LET ss == IF solvent THEN R(1, 10) ELSE Zero
        p == R(200, 1)
    IN  { [pressure |-> p, sw |-> R(1, 5), sg |-> Zero, so |-> RSub(R(4, 5), ss),
           ss |-> ss, rs |-> One, rv |-> Zero, hydroCarbonState |-> "OilOnly"],
          [pressure |-> p, sw |-> R(1, 5), sg |-> Zero, so |-> RSub(R(4, 5), ss),
           ss |-> ss, rs |-> RsSat(p), rv |-> Zero, hydroCarbonState |-> "OilOnly"],
          [pressure |-> p, sw |-> RSub(One, epsilon), sg |-> Zero, so |-> epsilon,
           ss |-> Zero, rs |-> One, rv |-> Zero, hydroCarbonState |-> "OilOnly"],
          [pressure |-> p, sw |-> R(9, 10), sg |-> Zero, so |-> RSub(R(1, 10), ss),
           ss |-> ss, rs |-> One, rv |-> Zero, hydroCarbonState |-> "OilOnly"],
          [pressure |-> p, sw |-> R(1, 5), sg |-> R(3, 10), so |-> RSub(R(1, 2), ss),
           ss |-> ss, rs |-> RsSat(p), rv |-> RvSat(p), hydroCarbonState |-> "GasAndOil"],
          [pressure |-> p, sw |-> R(1, 5), sg |-> RSub(R(7, 10), ss), so |-> R(1, 10),
           ss |-> ss, rs |-> RsSat(p), rv |-> RvSat(p), hydroCarbonState |-> "GasAndOil"],
          [pressure |-> p, sw |-> One, sg |-> Zero, so |-> Zero,
           ss |-> Zero, rs |-> Zero, rv |-> Zero, hydroCarbonState |-> "GasAndOil"],
          [pressure |-> p, sw |-> R(1, 5), sg |-> RSub(R(4, 5), ss), so |-> Zero,
           ss |-> ss, rs |-> Zero, rv |-> R(1, 10), hydroCarbonState |-> "GasOnly"],
          [pressure |-> p, sw |-> RSub(One, epsilon), sg |-> epsilon, so |-> Zero,
           ss |-> Zero, rs |-> Zero, rv |-> R(1, 10), hydroCarbonState |-> "GasOnly"] }

\* the entries of dx of a cell: pressure, water saturation, the third
\* variable (sg, rs or rv by the state of the cell) and solvent saturation
CellIncrement(dp, dsw, dxvar, dss) ==
    [dp |-> dp, dsw |-> dsw, dxvar |-> dxvar, dss |-> dss]
ZeroIncrement == CellIncrement(Zero, Zero, Zero, Zero)
CellIncrements ==
    { ZeroIncrement,
      CellIncrement(R(100, 1), R(1, 10), Zero, Zero),
      CellIncrement(R(-100, 1), R(-1, 2), R(1, 10), Zero),
      CellIncrement(Zero, Zero, R(-2, 1), Zero),
      CellIncrement(Zero, Zero, One, Zero),
      CellIncrement(Zero, Zero, R(-1, 10000), Zero),
      CellIncrement(Zero, R(-1, 5), R(-2, 1), Zero),
      CellIncrement(Zero, R(1, 4), Zero, R(1, 10)),
      CellIncrement(Zero, Zero, R(-2, 1), R(1, 10)),
      CellIncrement(Zero, R(-1, 5), Zero, R(-1, 5)) }

UpdateStart(solvent, disgas, vapoil, c) ==
    /\ has_solvent_ = solvent /\ has_disgas_ = disgas /\ has_vapoil_ = vapoil
    /\ cell = c
    /\ cellBefore = c
    /\ dxCell = ZeroIncrement
    /\ chopped = [pressure |-> c.pressure, sw |-> c.sw, sg |-> c.sg, ss |-> c.ss,
                  so |-> c.so, rs |-> c.rs, rv |-> c.rv,
                  hydroCarbonState |-> c.hydroCarbonState,
                  step |-> One, dsw |-> Zero, dsg |-> Zero, dss |-> Zero]
    /\ switched = "none" /\ switchedBefore = "none"
    /\ updateCount = 0

UpdateInit ==
    \E solvent \in BOOLEAN, disgas \in BOOLEAN, vapoil \in BOOLEAN :
    \E c \in CellStarts(solvent) : UpdateStart(solvent, disgas, vapoil, c)

\* ------------------------------------------------------------------------
\* StandardWellsDense::assemble and its pre-solve solveWellEq, for the two
\* wells of the oil-water run; no group control, no well under THP control.
\* ------------------------------------------------------------------------
\* calls of assemble followed in one time step
MaxAssembleCalls == 2
\* } while (it < 15);
WellIterationCap == 15

\* the sum over the phases of the run
PhaseSum(f) == RAdd(f["water"], f["oil"])

\* wellhelpers::constraintBroken: the bottom-hole pressure beyond its limit,
\* or the rate of the phases of the control beyond its target
ConstraintBroken(xw, w, ctrl_index) ==
    LET ctrl == WellControls(w)[ctrl_index]
        rate == PhaseSum([p \in Phases |-> RMul(ctrl.distr[p], xw.wellRates[w][p])])
    IN  IF ctrl.type = "BHP"
        THEN IF WellType(w) = "INJECTOR"
             THEN RGt(xw.bhp[w], ctrl.target)
             ELSE RLt(xw.bhp[w], ctrl.target)
        ELSE IF WellType(w) = "INJECTOR"
             THEN RGt(rate, ctrl.target)
             ELSE RLt(rate, ctrl.target)

\* updateWellStateWithTarget, first switch: the rates of a well under a rate
\* control ctrl, from the rates old
TargetRates(ctrl, w, old, underControl, original_rates_under_phase_control) ==
    IF WellType(w) = "INJECTOR"
    THEN [p \in Phases |-> IF p \in underControl
                           THEN RDiv(ctrl.target, ctrl.distr[p]) ELSE Zero]
    ELSE IF original_rates_under_phase_control[1] # 0
    THEN [p \in Phases |->
             RMul(old[p], RDiv(ctrl.target, original_rates_under_phase_control))]
    ELSE [p \in Phases |->
             IF p \in underControl
             THEN RDiv(RDiv(ctrl.target, R(Cardinality(underControl), 1)), ctrl.distr[p])
             ELSE RDiv(ctrl.target, R(Cardinality(underControl), 1))]

\* updateWellStateWithTarget, second switch and the fractions: the well
\* variables from the rates, the bottom-hole pressure and tot_well_rate
TargetSolutions(ctrl, w, rates, bhp, gg, tot_well_rate, GFrac) ==
    [XvarWell |-> IF ctrl.type = "BHP"
                  THEN IF WellType(w) = "INJECTOR"
                       THEN PhaseSum([p \in Phases |-> RMul(rates[p], comp_frac(w)[p])])
                       ELSE tot_well_rate
                  ELSE bhp,
     WFrac |-> IF tot_well_rate[1] # 0
               THEN RDiv(RMul(gg["water"], rates["water"]), tot_well_rate)
               ELSE IF WellType(w) = "INJECTOR"
               THEN (IF RGt(ctrl.distr["water"], Zero) THEN One ELSE Zero)
               ELSE R(1, Cardinality(Phases)),
     GFrac |-> GFrac]

\* the entries of a well with the rates and the bottom-hole pressure set
TargetedWithRates(ctrl, w, rates, bhp, gg, GFrac) ==
    [wellSolutions |->
         TargetSolutions(ctrl, w, rates, bhp, gg,
                         PhaseSum([p \in Phases |-> RMul(gg[p], rates[p])]), GFrac),
     wellRates |-> rates,
     bhp |-> bhp]

\* updateWellStateWithTarget: the entries of well w under the control ctrl,
\* a BHP or a rate control
TargetedWell(ctrl, w, xw) ==
    TargetedWithRates(ctrl, w,
        IF ctrl.type = "BHP" THEN xw.wellRates[w]
        ELSE TargetRates(ctrl, w, xw.wellRates[w],
                 {p \in Phases : RGt(ctrl.distr[p], Zero)},
                 PhaseSum([p \in Phases |-> IF RGt(ctrl.distr[p], Zero)
                                            THEN RMul(xw.wellRates[w][p], ctrl.distr[p])
                                            ELSE Zero])),
        IF ctrl.type = "BHP" THEN ctrl.target ELSE xw.bhp[w],
        IF ctrl.type = "RESERVOIR_RATE" THEN ctrl.distr ELSE g,
        xw.wellSolutions[w].GFrac)

\* the well state with the entries of every well replaced
WithWellEntries(xw, entries) ==
    [xw EXCEPT !.wellSolutions = [w \in Wells |-> entries[w].wellSolutions],
               !.wellRates = [w \in Wells |-> entries[w].wellRates],
               !.bhp = [w \in Wells |-> entries[w].bhp]]

\* updateWellStateWithTarget for the wells of the set changed
UpdateWellStateWithTarget(changed, xw) ==
    WithWellEntries(xw,
        [w \in Wells |->
            IF w \in changed
            THEN TargetedWell(WellControls(w)[xw.currentControls[w]], w, xw)
            ELSE [wellSolutions |-> xw.wellSolutions[w],
                  wellRates |-> xw.wellRates[w],
                  bhp |-> xw.bhp[w]]])

\* the last control of well w other than the current one whose constraint
\* is broken; 0 if there is none
LastBroken(xw, w) ==
    IF \E i \in 1..Len(WellControls(w)) :
           i # xw.currentControls[w] /\ ConstraintBroken(xw, w, i)
    THEN CHOOSE i \in 1..Len(WellControls(w)) :
             /\ i # xw.currentControls[w] /\ ConstraintBroken(xw, w, i)
             /\ \A j \in (i + 1)..Len(WellControls(w)) :
                    j = xw.currentControls[w] \/ ~ConstraintBroken(xw, w, j)
    ELSE 0

\* the first control of well w other than the current one whose constraint
\* is broken; 0 if there is none
FirstBroken(xw, w) ==
    IF \E i \in 1..Len(WellControls(w)) :
           i # xw.currentControls[w] /\ ConstraintBroken(xw, w, i)
    THEN CHOOSE i \in 1..Len(WellControls(w)) :
             /\ i # xw.currentControls[w] /\ ConstraintBroken(xw, w, i)
             /\ \A j \in 1..(i - 1) :
                    j = xw.currentControls[w] \/ ~ConstraintBroken(xw, w, j)
    ELSE 0

\* updateWellControls with the controls to switch to given: the well state
\* and the current control of the Wells struct afterwards
SwitchedTo(xw, wc, broken) ==
    [well_state |->
         UpdateWellStateWithTarget({w \in Wells : broken[w] # 0},
             [xw EXCEPT !.currentControls =
                 [w \in Wells |-> IF broken[w] # 0 THEN broken[w]
                                  ELSE xw.currentControls[w]]]),
     ctrls |-> [w \in Wells |-> IF broken[w] # 0 THEN broken[w] ELSE wc[w]]]

\* updateWellControls
UpdateWellControls(xw, wc) ==
    SwitchedTo(xw, wc, [w \in Wells |-> FirstBroken(xw, w)])

\* prepareTimeStep without resetWellControlFromState
PrepareTimeStepUnsynchronized(xw, wc) ==
    [well_state |-> UpdateWellStateWithTarget(Wells, xw),
     ctrls |-> wc]

\* prepareTimeStep without group control: resetWellControlFromState, then
\* the well state follows the controls
PrepareTimeStep(xw, wc) ==
    [well_state |-> UpdateWellStateWithTarget(Wells, xw),
     ctrls |-> xw.currentControls]

\* getWellConvergence on the residual of the wells: the value returned and
\* whether NumericalProblem is thrown instead
GetWellConvergence(res) ==
    LET B_avg(k) == RDiv(RSumTo([c \in Cells |-> RDiv(One, InvB(c, k))], NumCells),
                         R(NumCells, 1))
        maxNormWell(k) == RMaxTo([w \in Wells |-> RAbs(res[k][w])], NumWells, Zero)
        well_flux_residual(k) == RMul(B_avg(k), maxNormWell(k))
    IN  [converged |-> \A k \in Comps : RLt(well_flux_residual(k), tolerance_wells_),
         throws |-> \E k \in Comps : RGt(well_flux_residual(k), max_residual_allowed_)]

\* solveWellEq restoring the well state but not the controls
RestoredControlsKept(wc, restored) == wc

\* well_controls_set_current(wc, well_state.currentControls()[w]) after
\* well_state = well_state0
RestoredControls(wc, restored) == restored.currentControls

\* while (it < 15)
LoopGoesOn(n) == n < WellIterationCap

\* what assemble does before the pre-solve: prepareTimeStep at iteration 0,
\* updateWellControls
UpdateWellControlsOf(prepared) ==
    UpdateWellControls(prepared.well_state, prepared.ctrls)

Prepared(idx) ==
    IF idx = 0 THEN PrepareTimeStep(assembleWellState, ctrls)
    ELSE [well_state |-> assembleWellState, ctrls |-> ctrls]

\* setWellVariables: the value of every well variable
setWellVariables(xw) == xw.wellSolutions

\* prepareTimeStep at iteration 0, updateWellControls and setWellVariables
AssembleControls(prepared, a) ==
    /\ assembleWellState' = a.well_state
    /\ ctrls' = a.ctrls
    /\ controlsBefore' = prepared.well_state
    /\ controlsAfter' = a.well_state.currentControls
    /\ wellVariables_' = setWellVariables(a.well_state)

\* assemble at an iteration without the pre-solve
AssembleWithoutPreSolve ==
    /\ wellsPc \in {"idle", "assembled"}
    /\ assembleCalls < MaxAssembleCalls
    /\ ~(solve_welleq_initially_ /\ assembleCalls = 0)
    /\ iterationIdx' = assembleCalls
    /\ assembleCalls' = assembleCalls + 1
    /\ \E prepared \in {Prepared(assembleCalls)} :
       \E a \in {UpdateWellControlsOf(prepared)} : AssembleControls(prepared, a)
    /\ wellReport' = [converged |-> TRUE, total_well_iterations |-> 0]
    /\ wellsPc' = "assembled"
    /\ preSolve' = "skipped"
    /\ UNCHANGED <<solve_welleq_initially_, well_state0, solveIt, solveConverged,
                   wellsEscaped, wellStateAtEntry, ctrlsAtEntry, updatesDone,
                   wellStateLeft, ctrlsLeft>>
    /\ UNCHANGED otherThanWells

\* assemble at iteration 0 up to the entry of the loop of solveWellEq
AssembleEntersPreSolve ==
    /\ wellsPc = "idle"
    /\ assembleCalls < MaxAssembleCalls
    /\ solve_welleq_initially_ /\ assembleCalls = 0
    /\ iterationIdx' = assembleCalls
    /\ assembleCalls' = assembleCalls + 1
    /\ \E prepared \in {Prepared(assembleCalls)} :
       \E a \in {UpdateWellControlsOf(prepared)} :
           /\ AssembleControls(prepared, a)
           /\ well_state0' = a.well_state
           /\ wellStateAtEntry' = a.well_state
           /\ ctrlsAtEntry' = a.ctrls
           /\ wellStateLeft' = a.well_state
           /\ ctrlsLeft' = a.ctrls
    /\ solveIt' = 0
    /\ solveConverged' = FALSE
    /\ updatesDone' = 0
    /\ preSolve' = "running"
    /\ wellsPc' = "solveWellEq"
    /\ UNCHANGED <<solve_welleq_initially_, wellReport, wellsEscaped>>
    /\ UNCHANGED otherThanWells

\* a pass of the loop in which getWellConvergence throws
PassThrows(res) ==
    /\ wellsPc = "solveWellEq"
    /\ GetWellConvergence(res).throws
    /\ wellsPc' = "threw"
    /\ wellsEscaped' = "NumericalProblem"
    /\ preSolve' = "threw"
    /\ UNCHANGED <<solve_welleq_initially_, assembleWellState, ctrls, well_state0,
                   solveIt, solveConverged, wellReport, iterationIdx, assembleCalls,
                   wellStateAtEntry, ctrlsAtEntry, updatesDone, wellStateLeft,
                   ctrlsLeft, wellVariables_, controlsBefore, controlsAfter>>
    /\ UNCHANGED otherThanWells

\* a pass of the loop that finds the wells converged: solveWellEq returns and
\* assemble goes on to assembleWellEq
PassConverges(res) ==
    /\ wellsPc = "solveWellEq"
    /\ ~GetWellConvergence(res).throws
    /\ GetWellConvergence(res).converged
    /\ solveConverged' = TRUE
    /\ wellReport' = [converged |-> TRUE, total_well_iterations |-> solveIt]
    /\ wellsPc' = "assembled"
    /\ preSolve' = "converged"
    /\ UNCHANGED <<solve_welleq_initially_, assembleWellState, ctrls, well_state0,
                   solveIt, wellsEscaped, iterationIdx, assembleCalls,
                   wellStateAtEntry, ctrlsAtEntry, updatesDone, wellStateLeft,
                   ctrlsLeft, wellVariables_, controlsBefore, controlsAfter>>
    /\ UNCHANGED otherThanWells

\* a pass of the loop that updates the wells; after the last one solveWellEq
\* restores the well state and assemble goes on to assembleWellEq
PassUpdates(res, dx_well) ==
    /\ wellsPc = "solveWellEq"
    /\ ~GetWellConvergence(res).throws
    /\ ~GetWellConvergence(res).converged
    /\ solveConverged' = FALSE
    /\ solveIt' = solveIt + 1
    /\ updatesDone' = updatesDone + 1
    /\ \E updated \in {UpdateWellState(dx_well, assembleWellState)} :
       \E u \in {UpdateWellControls(updated, ctrls)} :
           /\ wellStateLeft' = u.well_state
           /\ ctrlsLeft' = u.ctrls
           /\ controlsBefore' = updated
           /\ controlsAfter' = u.well_state.currentControls
           /\ wellVariables_' = setWellVariables(u.well_state)
           /\ IF LoopGoesOn(solveIt')
              THEN /\ assembleWellState' = u.well_state
                   /\ ctrls' = u.ctrls
                   /\ UNCHANGED <<wellReport, wellsPc, preSolve>>
              ELSE /\ assembleWellState' = well_state0
                   /\ ctrls' = RestoredControls(u.ctrls, well_state0)
                   /\ wellReport' = [converged |-> TRUE,
                                     total_well_iterations |-> solveIt']
                   /\ wellsPc' = "assembled"
                   /\ preSolve' = "notConverged"
    /\ UNCHANGED <<solve_welleq_initially_, well_state0, wellsEscaped, iterationIdx,
                   assembleCalls, wellStateAtEntry, ctrlsAtEntry>>
    /\ UNCHANGED otherThanWells

\* the residual of the wells an assembly of the well equations leaves
PreSolveResiduals ==
    { WellResidualOf([comp |-> "oil", well |-> 1, value |-> Zero]),
      WellResidualOf([comp |-> "oil", well |-> 2, value |-> One]),
      WellResidualOf([comp |-> "oil", well |-> 2, value |-> R(100, 1)]) }

\* invDuneD_.mv(resWell_, dx_well): no change, or the update of the wells
\* of the Newton step that does not oscillate
PreSolveIncrements == {ZeroDw} \cup {u.xw : u \in {v \in NewtonUpdates : ~v.isOscillate}}

\* the well state handed to assemble and the controls of the Wells struct,
\* which after a restart may be ahead of the well state
WellsStart(presolve, start, wc) ==
    /\ solve_welleq_initially_ = presolve
    /\ assembleWellState = InitialWellState(start.current, start.wfrac)
    /\ ctrls = [w \in Wells |-> wc]
    /\ well_state0 = assembleWellState
    /\ solveIt = 0
    /\ solveConverged = FALSE
    /\ wellReport = [converged |-> FALSE, total_well_iterations |-> 0]
    /\ wellsEscaped = None
    /\ wellsPc = "idle"
    /\ iterationIdx = 0 - 1
    /\ assembleCalls = 0
    /\ wellStateAtEntry = assembleWellState
    /\ ctrlsAtEntry = ctrls
    /\ wellStateLeft = assembleWellState
    /\ ctrlsLeft = ctrls
    /\ updatesDone = 0
    /\ preSolve = None
    /\ wellVariables_ = NoState
    /\ controlsBefore = NoState /\ controlsAfter = NoState

WellsInit ==
    \E presolve \in BOOLEAN, start \in TimeStepStarts, wc \in 1..2 :
        WellsStart(presolve, start, wc)

\* ------------------------------------------------------------------------
\* StandardWellsDense: the local Schur complement of the well equations
\* (one well perforating SchurCells; the blocks are numWellEq x numWellEq)
\* ------------------------------------------------------------------------
NumSchurCells == 2
SchurCells == 1..NumSchurCells

\* numComponents(): three phases, and the solvent when it is active
numComponents(solvent) == IF solvent THEN 4 ELSE 3

ZeroVec(n) == [i \in 1..n |-> Zero]
VecAdd(a, b, n) == [i \in 1..n |-> RAdd(a[i], b[i])]
VecSub(a, b, n) == [i \in 1..n |-> RSub(a[i], b[i])]

\* FieldMatrix::mv and FieldMatrix::mtv of one block
BlockMv(M, v, n) ==
    [i \in 1..n |-> RSumTo([j \in 1..n |-> RMul(M[i][j], v[j])], n)]
BlockMtv(M, v, n) ==
    [j \in 1..n |-> RSumTo([i \in 1..n |-> RMul(M[i][j], v[i])], n)]

\* the block with row i and column j struck out
Minor(M, i, j, n) ==
    [r \in 1..(n - 1) |-> [c \in 1..(n - 1) |->
        M[IF r < i THEN r ELSE r + 1][IF c < j THEN c ELSE c + 1]]]

RECURSIVE Determinant(_, _)
Determinant(M, n) ==
    IF n = 1 THEN M[1][1]
    ELSE RSumTo([j \in 1..n |->
                    RMul(IF j % 2 = 1 THEN M[1][j] ELSE RNeg(M[1][j]),
                         Determinant(Minor(M, 1, j, n), n - 1))], n)

\* Block::invert() in exact arithmetic: the adjugate over the determinant
Inverted(M, n) ==
    [i \in 1..n |-> [j \in 1..n |->
        RDiv(IF (i + j) % 2 = 0 THEN Determinant(Minor(M, j, i, n), n - 1)
             ELSE RNeg(Determinant(Minor(M, j, i, n), n - 1)),
             Determinant(M, n))]]

\* localInvert: every block of the matrix is inverted in place
localInvert(istlA, n) == Inverted(istlA, n)

\* Mat::mv on the one block row of the well: y = A x
RowMv(A, x, n) ==
    [i \in 1..n |-> RSumTo([c \in SchurCells |-> BlockMv(A[c], x[c], n)[i]],
                           NumSchurCells)]
\* Mat::mmv: y -= A x
RowMmv(A, x, y, n) == VecSub(y, RowMv(A, x, n), n)
\* a product that is added where mmtv subtracts it
RowMmtvAdds(A, x, y, n) ==
    [c \in SchurCells |-> VecAdd(y[c], BlockMtv(A[c], x, n), n)]
\* Mat::mmtv: y -= A^T x
RowMmtv(A, x, y, n) ==
    [c \in SchurCells |-> VecSub(y[c], BlockMtv(A[c], x, n), n)]

\* the copy of the well block into duneD_: entries [0..2][0..2] only
CopiedToDuneD(old, block, n) ==
    [i \in 1..n |-> [j \in 1..n |->
        IF i <= 3 /\ j <= 3 THEN block[i][j] ELSE old[i][j]]]

\* what duneD_ holds before the first copy: the constructor sets its
\* sparsity pattern and never assigns its entries
UnsetBlocks(n) ==
    {[i \in 1..n |-> [j \in 1..n |-> R(k, 1)]] : k \in {0, 7}}

IntVec(f, n) == [i \in 1..n |-> R(f[i], 1)]
IntBlock(f, n) == [i \in 1..n |-> [j \in 1..n |-> R(f[i][j], 1)]]

\* the derivatives and the residual the perforation loop has accumulated:
\* well blocks with determinant 2^n and (-1)^n, coupling blocks that are
\* not symmetric
WellBlocks(n) ==
    { IntBlock([i \in 1..n |-> [j \in 1..n |->
          IF i = j THEN 2 ELSE IF j = i + 1 THEN 1 ELSE 0]], n),
      IntBlock([i \in 1..n |-> [j \in 1..n |->
          IF i = j THEN 0 - 1 ELSE IF i = j + 1 THEN 2
          ELSE IF i = 1 /\ j = n THEN 1 ELSE 0]], n) }

CouplingB(k, n) ==
    [c \in SchurCells |-> IntBlock([i \in 1..n |-> [j \in 1..n |->
        IF i = j THEN c * k ELSE IF j = i + 1 THEN 0 - 1 ELSE 0]], n)]
CouplingC(k, n) ==
    [c \in SchurCells |-> IntBlock([i \in 1..n |-> [j \in 1..n |->
        IF i = j THEN 1 ELSE IF i = j + 1 THEN c + k ELSE 0]], n)]

WellJacobians(n) ==
    [D : WellBlocks(n),
     B : {CouplingB(2, n)},
     C : {CouplingC(0, n)},
     resWell : {IntVec([i \in 1..n |-> i], n),
                IntVec([i \in 1..n |-> IF i = n THEN 0 - 3 ELSE 1], n)}]

ReservoirVectors(n) ==
    { [c \in SchurCells |-> IntVec([i \in 1..n |-> c + i], n)],
      [c \in SchurCells |-> IntVec([i \in 1..n |-> IF i = c THEN 1 ELSE 0 - 2], n)] }

\* assembleWellEq, from the end of its perforation loop: the well block is
\* copied to duneD_ and inverted in place
assembleWellEq(jac) ==
    /\ schurPc \in {"constructed", "assembled", "applied", "recovered"}
    /\ \E n \in {numComponents(schurSolvent)} :
          /\ duneD_' = CopiedToDuneD(duneD_, jac.D, n)
          /\ invDuneD_' = localInvert(jac.D, n)
          /\ invDrw_' = invDrw_
          /\ Cx_' = Cx_
    /\ duneB_' = jac.B
    /\ duneC_' = jac.C
    /\ resWell_' = jac.resWell
    /\ wellBlock' = jac.D
    /\ schurPc' = "assembled"
    /\ schurOp' = "assembleWellEq"
    /\ UNCHANGED <<schurSolvent, schurX, schurIn, schurOut>>
    /\ UNCHANGED otherThanSchur

\* apply(r): r = r - duneB_^T * invDuneD_ * resWell_
applyResidual(r) ==
    /\ schurPc \in {"assembled", "applied", "recovered"}
    /\ \E n \in {numComponents(schurSolvent)} :
       \E invDrw \in {BlockMv(invDuneD_, resWell_, n)} :
          /\ invDrw_' = invDrw
          /\ schurOut' = RowMmtv(duneB_, invDrw, r, n)
    /\ schurIn' = r
    /\ schurX' = NoState
    /\ schurPc' = "applied"
    /\ schurOp' = "apply(r)"
    /\ UNCHANGED <<schurSolvent, invDuneD_, duneD_, duneB_, duneC_, resWell_,
                   Cx_, wellBlock>>
    /\ UNCHANGED otherThanSchur

\* apply(x, Ax): Ax = Ax - duneB_^T * invDuneD_ * duneC_ * x
applyOperator(x, Ax) ==
    /\ schurPc \in {"assembled", "applied", "recovered"}
    /\ \E n \in {numComponents(schurSolvent)} :
       \E Cx \in {RowMv(duneC_, x, n)} :
       \E invDCx \in {BlockMv(invDuneD_, Cx, n)} :
          /\ Cx_' = Cx
          /\ invDrw_' = invDCx
          /\ schurOut' = RowMmtv(duneB_, invDCx, Ax, n)
    /\ schurIn' = Ax
    /\ schurX' = x
    /\ schurPc' = "applied"
    /\ schurOp' = "apply(x, Ax)"
    /\ UNCHANGED <<schurSolvent, invDuneD_, duneD_, duneB_, duneC_, resWell_,
                   wellBlock>>
    /\ UNCHANGED otherThanSchur

\* recoverVariable(x, xw): xw = invDuneD_ * (resWell_ - duneC_ * x)
recoverVariable(x) ==
    /\ schurPc \in {"assembled", "applied", "recovered"}
    /\ \E n \in {numComponents(schurSolvent)} :
       \E resWell \in {RowMmv(duneC_, x, resWell_, n)} :
          schurOut' = BlockMv(invDuneD_, resWell, n)
    /\ schurIn' = NoState
    /\ schurX' = x
    /\ schurPc' = "recovered"
    /\ schurOp' = "recoverVariable"
    /\ UNCHANGED <<schurSolvent, invDuneD_, duneD_, duneB_, duneC_, resWell_,
                   Cx_, invDrw_, wellBlock>>
    /\ UNCHANGED otherThanSchur

\* the state the constructor and init leave
SchurInit ==
    /\ schurSolvent \in BOOLEAN
    /\ duneD_ \in UnsetBlocks(numComponents(schurSolvent))
    /\ invDuneD_ = NoState /\ duneB_ = NoState /\ duneC_ = NoState
    /\ resWell_ = NoState /\ Cx_ = NoState /\ invDrw_ = NoState
    /\ wellBlock = NoState
    /\ schurX = NoState /\ schurIn = NoState /\ schurOut = NoState
    /\ schurPc = "constructed"
    /\ schurOp = None

\* the well operator is not built
SchurParked ==
    /\ schurSolvent = FALSE
    /\ duneD_ = NoState
    /\ invDuneD_ = NoState /\ duneB_ = NoState /\ duneC_ = NoState
    /\ resWell_ = NoState /\ Cx_ = NoState /\ invDrw_ = NoState
    /\ wellBlock = NoState
    /\ schurX = NoState /\ schurIn = NoState /\ schurOut = NoState
    /\ schurPc = None
    /\ schurOp = None

\* ------------------------------------------------------------------------
\* StandardWellsDense::updateWellState: the fractions of one well with
\* water, oil and, when active, gas and solvent
\* ------------------------------------------------------------------------
\* calls of updateWellState followed for one well
MaxFractionUpdates == 2

\* the second, third and fourth well variable after their limited update
LimitedFractions(old, dwells, gas, solvent) ==
    [WFrac |-> LimitedFraction(old.WFrac, dwells.WFrac),
     GFrac |-> IF gas THEN LimitedFraction(old.GFrac, dwells.GFrac) ELSE old.GFrac,
     SFrac |-> IF solvent THEN LimitedFraction(old.SFrac, dwells.SFrac)
               ELSE old.SFrac]

\* F and F_solvent from the well variables: oil is what the others leave
FractionsOf(xvar, gas, solvent) ==
    [water |-> xvar.WFrac,
     gas |-> IF gas THEN xvar.GFrac ELSE Zero,
     solvent |-> IF solvent THEN xvar.SFrac ELSE Zero,
     oil |-> RSub(RSub(RSub(One, xvar.WFrac),
                       IF gas THEN xvar.GFrac ELSE Zero),
                  IF solvent THEN xvar.SFrac ELSE Zero)]

\* if (F[Water] < 0.0)
WaterRemoved(F, gas, solvent) ==
    IF RLt(F.water, Zero)
    THEN [water |-> Zero,
          gas |-> IF gas THEN RDiv(F.gas, RSub(One, F.water)) ELSE F.gas,
          solvent |-> IF solvent THEN RDiv(F.solvent, RSub(One, F.water))
                      ELSE F.solvent,
          oil |-> RDiv(F.oil, RSub(One, F.water))]
    ELSE F

\* a gas fraction that is removed without the solvent being scaled
GasRemovedSolventKept(F, gas, solvent) ==
    IF gas /\ RLt(F.gas, Zero)
    THEN [water |-> RDiv(F.water, RSub(One, F.gas)),
          gas |-> Zero,
          solvent |-> F.solvent,
          oil |-> RDiv(F.oil, RSub(One, F.gas))]
    ELSE F
\* if (F[Gas] < 0.0)
GasRemoved(F, gas, solvent) ==
    IF gas /\ RLt(F.gas, Zero)
    THEN [water |-> RDiv(F.water, RSub(One, F.gas)),
          gas |-> Zero,
          solvent |-> IF solvent THEN RDiv(F.solvent, RSub(One, F.gas))
                      ELSE F.solvent,
          oil |-> RDiv(F.oil, RSub(One, F.gas))]
    ELSE F

\* if (F[Oil] < 0.0)
OilRemoved(F, gas, solvent) ==
    IF RLt(F.oil, Zero)
    THEN [water |-> RDiv(F.water, RSub(One, F.oil)),
          gas |-> IF gas THEN RDiv(F.gas, RSub(One, F.oil)) ELSE F.gas,
          solvent |-> IF solvent THEN RDiv(F.solvent, RSub(One, F.oil))
                      ELSE F.solvent,
          oil |-> Zero]
    ELSE F

\* the well variables written back from F and F_solvent
WrittenBack(old, F, gas, solvent) ==
    [WFrac |-> F.water,
     GFrac |-> IF gas THEN F.gas ELSE old.GFrac,
     SFrac |-> IF solvent THEN F.solvent ELSE old.SFrac]

\* the updates of the fractions of one well a linear solve can give
FractionIncrements ==
    { [WFrac |-> R(1, 2),  GFrac |-> R(-1, 10), SFrac |-> R(1, 10)],
      [WFrac |-> R(-1, 2), GFrac |-> R(1, 2),   SFrac |-> R(-1, 2)],
      [WFrac |-> R(1, 10), GFrac |-> R(1, 2),   SFrac |-> R(1, 2)],
      [WFrac |-> R(-1, 2), GFrac |-> R(-1, 2),  SFrac |-> R(-1, 2)],
      [WFrac |-> Zero,     GFrac |-> Zero,      SFrac |-> Zero] }

\* the fractions of a well at the start of a time step
FractionStarts(gas, solvent) ==
    { [WFrac |-> Zero, GFrac |-> Zero, SFrac |-> Zero],
      [WFrac |-> One, GFrac |-> Zero, SFrac |-> Zero],
      [WFrac |-> R(3, 10), GFrac |-> IF gas THEN R(1, 5) ELSE Zero,
       SFrac |-> IF solvent THEN R(1, 10) ELSE Zero],
      [WFrac |-> R(1, 10), GFrac |-> IF gas THEN R(1, 10) ELSE Zero,
       SFrac |-> IF solvent THEN R(4, 5) ELSE Zero] }

\* updateWellState, the part on the fractions of one well
updateWellFractions(dwells) ==
    /\ fracUpdates < MaxFractionUpdates
    /\ fracUpdates' = fracUpdates + 1
    /\ \E F \in {FractionsOf(LimitedFractions(wellFractions, dwells, fracGas,
                                              fracSolvent),
                             fracGas, fracSolvent)} :
       \E F1 \in {WaterRemoved(F, fracGas, fracSolvent)} :
       \E F2 \in {GasRemoved(F1, fracGas, fracSolvent)} :
       \E F3 \in {OilRemoved(F2, fracGas, fracSolvent)} :
          /\ limitedF' = F
          /\ normalizedF' = F3
          /\ wellFractions' = WrittenBack(wellFractions, F3, fracGas, fracSolvent)
    /\ UNCHANGED <<fracGas, fracSolvent>>
    /\ UNCHANGED otherThanFrac

FracInit ==
    /\ fracGas \in BOOLEAN
    /\ fracSolvent \in {s \in BOOLEAN : s => fracGas}
    /\ wellFractions \in FractionStarts(fracGas, fracSolvent)
    /\ limitedF = FractionsOf(wellFractions, fracGas, fracSolvent)
    /\ normalizedF = limitedF
    /\ fracUpdates = 0

\* updateWellState is not run
FracParked ==
    /\ fracGas = FALSE /\ fracSolvent = FALSE
    /\ wellFractions = NoState /\ limitedF = NoState /\ normalizedF = NoState
    /\ fracUpdates = 0

\* ------------------------------------------------------------------------
\* StandardWellsDense::computeWellFlux in the perforation loop of
\* assembleWellEq: one well, three phases, no solvent
\* ------------------------------------------------------------------------
NumPerforations == 2
Perforations == 1..NumPerforations

\* std::vector<EvalWell> cq_s(numComp, 0.0)
ZeroFlux == [water |-> Zero, oil |-> Zero, gas |-> Zero]

\* wells().WI[perf], and the mobilities and inverse formation volume factors
\* of the cell of a perforation
WellIndex == R(2, 1)
Mobility == [water |-> One, oil |-> R(2, 1), gas |-> R(1, 2)]
InverseB == [water |-> One, oil |-> R(1, 2), gas |-> R(2, 1)]

\* drawdown = pressure - (bhp + cdp), with cdp = 0
Drawdown(pressure, bhp) == RSub(pressure, RAdd(bhp, Zero))

\* the perforation flows as a perforation of a well of its type does
FlowsWithType(type, drawdown) ==
    \/ RLt(drawdown, Zero) /\ type = "INJECTOR"
    \/ RGt(drawdown, Zero) /\ type = "PRODUCER"

\* cross flow that every well allows
allow_cross_flow_always(well, cells) == TRUE
\* allow_cross_flow: allowed by the well, or every perforation has cross flow
allow_cross_flow(well, cells) ==
    \/ well.allow_cf
    \/ ~\E perf \in Perforations :
           FlowsWithType(well.type, Drawdown(cells[perf].pressure, well.bhp))

\* the producing branch of computeWellFlux
ProducingFlux(drawdown, rs, rv) ==
    LET cq(c) == RMul(InverseB[c],
                      RNeg(RMul(WellIndex, RMul(Mobility[c], drawdown))))
    IN  [water |-> cq("water"),
         oil |-> RAdd(cq("oil"), RMul(rv, cq("gas"))),
         gas |-> RAdd(cq("gas"), RMul(rs, cq("oil")))]

\* volumeRatio of the injecting branch, d = 1 - rv * rs not being 0
VolumeRatio(cmix_s, rs, rv, d) ==
    RAdd(RDiv(cmix_s.water, InverseB.water),
         RAdd(RDiv(RDiv(RSub(cmix_s.oil, RMul(rv, cmix_s.gas)), d), InverseB.oil),
              RDiv(RDiv(RSub(cmix_s.gas, RMul(rs, cmix_s.oil)), d), InverseB.gas)))

\* the injecting branch
InjectingFlux(drawdown, cmix_s, cqt_i, volumeRatio) ==
    [c \in {"water", "oil", "gas"} |-> RMul(cmix_s[c], RDiv(cqt_i, volumeRatio))]

\* computeWellFlux: cq_s, and whether NumericalProblem is thrown
computeWellFlux(well, fs, allow_cf) ==
    LET drawdown == Drawdown(fs.pressure, well.bhp)
        d == RSub(One, RMul(fs.rv, fs.rs))
        total_mob == RAdd(Mobility.water, RAdd(Mobility.oil, Mobility.gas))
    IN  IF RGt(drawdown, Zero)
        THEN IF ~allow_cf /\ well.type = "INJECTOR"
             THEN [cq_s |-> ZeroFlux, thrown |-> FALSE]
             ELSE [cq_s |-> ProducingFlux(drawdown, fs.rs, fs.rv), thrown |-> FALSE]
        ELSE IF ~allow_cf /\ well.type = "PRODUCER"
             THEN [cq_s |-> ZeroFlux, thrown |-> FALSE]
             ELSE IF d = Zero
                  THEN [cq_s |-> ZeroFlux, thrown |-> TRUE]
                  ELSE [cq_s |->
                            InjectingFlux(drawdown, well.cmix_s,
                                RNeg(RMul(WellIndex, RMul(total_mob, drawdown))),
                                VolumeRatio(well.cmix_s, fs.rs, fs.rv, d)),
                        thrown |-> FALSE]

\* the wells and the cells of their perforations
FluxWells ==
    [type : {"INJECTOR", "PRODUCER"},
     allow_cf : BOOLEAN,
     bhp : {R(200, 1), R(250, 1)},
     cmix_s : {[water |-> One, oil |-> Zero, gas |-> Zero],
               [water |-> R(3, 10), oil |-> R(1, 2), gas |-> R(1, 5)]}]

FluxCellStates ==
    [pressure : {R(150, 1), R(250, 1), R(300, 1)},
     rs : {Zero, One},
     rv : {Zero, One}]

\* a pass of the perforation loop of assembleWellEq
PerforationFlux ==
    /\ fluxPerf <= NumPerforations
    /\ fluxThrown = 0
    /\ \E flux \in {computeWellFlux(fluxWell, fluxCells[fluxPerf],
                                    allow_cross_flow(fluxWell, fluxCells))} :
          /\ perfFlux' = [perfFlux EXCEPT ![fluxPerf] = flux.cq_s]
          /\ fluxThrown' = IF flux.thrown THEN fluxPerf ELSE 0
    /\ fluxPerf' = fluxPerf + 1
    /\ UNCHANGED <<fluxWell, fluxCells>>
    /\ UNCHANGED otherThanFlux

FluxInit ==
    /\ fluxWell \in FluxWells
    /\ fluxCells \in [Perforations -> FluxCellStates]
    /\ perfFlux = [perf \in Perforations |-> ZeroFlux]
    /\ fluxPerf = 1
    /\ fluxThrown = 0

\* no well flux is computed
FluxParked ==
    /\ fluxWell = NoState /\ fluxCells = NoState /\ perfFlux = NoState
    /\ fluxPerf = 0
    /\ fluxThrown = 0

\* ------------------------------------------------------------------------
\* StandardWellsDense::assemble called more than once: one producer whose
\* only control is a BHP limit, one perforation, oil and water. The cell of
\* the perforation is cached, so its pressure, mobilities and formation
\* volume factors are the same in every call.
\* ------------------------------------------------------------------------
\* calls of assemble followed
MaxRepeats == 3
\* the iteration indices assemble is called with
IterationIndices == {0, 1}
\* the target of the BHP control and the pressure of the perforated cell
ProducerBhpTarget == R(200, 1)
PerforatedPressure == R(401, 2)
\* volume / dt for the time steps handed in
VolumesByDt == {R(4, 1), R(8, 1)}

\* wellSolutions of the well state as the two well variables
SolutionsOf(ws) == [XvarWell |-> ws.XvarWell, WFrac |-> ws.WFrac]

\* wellVolumeFractionScaled: the fraction of water is WFrac, that of oil
\* what is left of one, each over its g
wellVolumeFractionScaled(variables) ==
    [water |-> RDiv(variables.WFrac, g.water),
     oil |-> RDiv(RSub(One, variables.WFrac), g.oil)]

\* wellSurfaceVolumeFraction: the scaled fraction over the sum of them
wellSurfaceVolumeFraction(variables) ==
    LET scaled == wellVolumeFractionScaled(variables)
    IN  [c \in Comps |-> RDiv(scaled[c], PhaseSum(scaled))]

\* computeAccumWells: F0_ from the well variables
computeAccumWells(variables) == wellSurfaceVolumeFraction(variables)

\* getBhp under BHP control: the target of the control
getBhp == ProducerBhpTarget

\* getQs of a producer under BHP control: the total rate times the scaled
\* fraction of the component
getQs(variables) ==
    [c \in Comps |-> RMul(variables.XvarWell, wellVolumeFractionScaled(variables)[c])]

\* cq_s of the perforation
PerforationRates == ProducingFlux(Drawdown(PerforatedPressure, getBhp), Zero, Zero)

\* resWell_ of assembleWellEq: minus the perforation rate, plus
\* (F - F0_) * volume / dt + Q
AssembledResidual(variables, F0, vdt) ==
    LET F == wellSurfaceVolumeFraction(variables)
        Q == getQs(variables)
    IN  <<RAdd(RNeg(PerforationRates.water),
               RAdd(RMul(RSub(F.water, F0.water), vdt), Q.water)),
          RAdd(RNeg(PerforationRates.oil),
               RAdd(RMul(RSub(F.oil, F0.oil), vdt), Q.oil))>>

\* the diagonal block before it is inverted: the derivatives of resWell_loc
\* by XvarWell and WFrac; cq_s does not depend on them under BHP control
AssembledD(variables, vdt) ==
    <<<<variables.WFrac, RAdd(vdt, variables.XvarWell)>>,
      <<RSub(One, variables.WFrac), RNeg(RAdd(vdt, variables.XvarWell))>>>>

\* duneB_: minus the derivatives of cq_s by the well variables
AssembledB == <<<<Zero, Zero>>, <<Zero, Zero>>>>

\* duneC_: minus the derivatives of cq_s by the pressure of the cell
AssembledC ==
    <<RMul(InverseB.water, RMul(WellIndex, Mobility.water)),
      RMul(InverseB.oil, RMul(WellIndex, Mobility.oil))>>

\* getWellConvergence on the residual of the producer
ProducerConverged(residual) ==
    GetWellConvergence([k \in Comps |-> [w \in Wells |->
        IF w = NumWells THEN (IF k = "water" THEN residual[1] ELSE residual[2])
        ELSE Zero]]).converged

\* updateWellState of a producer under BHP control
UpdatedProducer(ws, dwells) ==
    LET F == NormalizedFractions(LimitedFraction(ws.WFrac, dwells[2]))
        xvar == RSub(ws.XvarWell, dwells[1])
    IN  [XvarWell |-> xvar,
         WFrac |-> F.water,
         wellRates |-> [p \in Phases |-> RMul(xvar, RDiv(F[p], g[p]))],
         bhp |-> ws.bhp]

\* updateWellStateWithTarget under BHP control: bhp is the target, the total
\* rate and the water fraction are taken from the well rates
TargetedProducer(ws) ==
    LET tot_well_rate == RAdd(RMul(g.water, ws.wellRates.water),
                              RMul(g.oil, ws.wellRates.oil))
    IN  [XvarWell |-> tot_well_rate,
         WFrac |-> IF tot_well_rate # Zero
                   THEN RDiv(RMul(g.water, ws.wellRates.water), tot_well_rate)
                   ELSE R(1, 2),
         wellRates |-> ws.wellRates,
         bhp |-> ProducerBhpTarget]

\* the loop of solveWellEq from pass it on: assemble the well equations,
\* leave when converged, else update the well state and set the variables
RECURSIVE SolveLoop(_, _, _, _)
\* one pass of the loop on a well state whose solutions are the variables
SolvePass(ws, F0, vdt, it) ==
    LET variables == SolutionsOf(ws)
        residual == AssembledResidual(variables, F0, vdt)
        updated == UpdatedProducer(ws,
                       BlockMv(localInvert(AssembledD(variables, vdt), 2), residual, 2))
    IN  IF ProducerConverged(residual)
        THEN [well_state |-> ws, wellVariables |-> variables, converged |-> TRUE]
        ELSE IF it + 1 < WellIterationCap
             THEN SolveLoop(updated, F0, vdt, it + 1)
             ELSE [well_state |-> updated, wellVariables |-> SolutionsOf(updated),
                   converged |-> FALSE]

SolveLoop(ws, F0, vdt, it) ==
    CHOOSE solved \in {SolvePass(entered, F0, vdt, it) : entered \in {ws}} : TRUE

\* solveWellEq: the well state goes back to its copy when the loop did not
\* converge; the well variables stay as the last pass set them
SolvedInitially(ws, F0, vdt) ==
    LET solved == SolveLoop(ws, F0, vdt, 0)
    IN  [well_state |-> IF solved.converged THEN solved.well_state ELSE ws,
         wellVariables |-> solved.wellVariables]

\* setWellVariables(well_state) of assemble
VariablesSet(ws) == SolutionsOf(ws)

\* the fractions taken in every call, and before the well variables are set
AccumulatedBeforeVariablesSet(idx, variables) == computeAccumWells(producerVariables)
\* if (iterationIdx == 0) computeAccumWells(), after setWellVariables
AccumulatedFractions(idx, variables) ==
    IF idx = 0 THEN computeAccumWells(variables) ELSE F0_

\* what a call of assemble leaves in the matrices and the residual
Assembly(idx, variables, F0, vdt, kept) ==
    [iterationIdx |-> idx,
     resWell |-> AssembledResidual(variables, F0, vdt),
     duneD |-> AssembledD(variables, vdt),
     duneB |-> AssembledB,
     duneC |-> AssembledC,
     kept |-> kept]

\* no call of assemble was made
NotAssembled ==
    [iterationIdx |-> NoState, resWell |-> <<Zero, Zero>>,
     duneD |-> <<<<Zero, Zero>>, <<Zero, Zero>>>>,
     duneB |-> AssembledB, duneC |-> AssembledC, kept |-> TRUE]

\* assemble(ebosSimulator, iterationIdx, dt, well_state); the first call of a
\* time step has iteration index 0
assembleAgain(idx) ==
    /\ repeatCalls < MaxRepeats
    /\ repeatCalls = 0 => idx = 0
    /\ \E prepared \in {IF idx = 0 THEN TargetedProducer(producerState)
                        ELSE producerState} :
       \E F0 \in {AccumulatedFractions(idx, VariablesSet(prepared))} :
       \E solved \in {IF repeatSolve /\ idx = 0
                      THEN SolvedInitially(prepared, F0, volumeByDt)
                      ELSE [well_state |-> prepared,
                            wellVariables |-> VariablesSet(prepared)]} :
          /\ producerState' = solved.well_state
          /\ producerVariables' = solved.wellVariables
          /\ F0_' = F0
          /\ assembledNow' = Assembly(idx, solved.wellVariables, F0, volumeByDt,
                                      solved.well_state = producerState)
    /\ assembledBefore' = assembledNow
    /\ repeatCalls' = repeatCalls + 1
    /\ UNCHANGED <<repeatSolve, volumeByDt>>
    /\ UNCHANGED otherThanRepeat

\* the well states assemble is first called with
ProducerStates ==
    {[XvarWell |-> R(0 - 2, 1), WFrac |-> wfrac,
      wellRates |-> [water |-> RMul(R(0 - 2, 1), wfrac),
                     oil |-> RMul(R(0 - 2, 1), RSub(One, wfrac))],
      bhp |-> ProducerBhpTarget] :
        wfrac \in {Zero, R(1, 8), R(1, 2), R(5, 8), R(3, 4)}}
    \cup
    {[XvarWell |-> R(0 - 1, 1), WFrac |-> R(1, 2),
      wellRates |-> [water |-> R(0 - 1, 2), oil |-> R(0 - 1, 2)],
      bhp |-> R(210, 1)]}

RepeatInit ==
    /\ repeatSolve \in BOOLEAN
    /\ volumeByDt \in VolumesByDt
    /\ producerState \in ProducerStates
    /\ producerVariables = [XvarWell |-> Zero, WFrac |-> Zero]
    /\ F0_ = [c \in Comps |-> Zero]
    /\ assembledNow = NotAssembled
    /\ assembledBefore = NotAssembled
    /\ repeatCalls = 0

\* assemble is not called again
RepeatParked ==
    /\ repeatSolve = FALSE /\ volumeByDt = NoState /\ producerState = NoState
    /\ producerVariables = NoState /\ F0_ = NoState
    /\ assembledNow = NoState /\ assembledBefore = NoState
    /\ repeatCalls = 0


\* ------------------------------------------------------------------------
\* The substep loop of AdaptiveTimeStepping::stepImpl followed to its end,
\* without a cap on the number of passes. Substep lengths are taken to be
\* bounded below: a pass is followed only when the length it attempts is not
\* below SubstepFloor.
\* ------------------------------------------------------------------------
\* the least substep length
SubstepFloor == One
\* the lengths of the first substep
FirstSubsteps == {R(1, 1), R(2, 1)}
\* the lengths of the report step
LoopStepLengths == {R(3, 1), R(4, 1)}

\* the length of the coming pass is below the least substep length
BelowFloor ==
    /\ loopPc = "loop"
    /\ ~TimerDone(loopTimer)
    /\ RLt(CurrentStepLength(loopTimer), SubstepFloor)

\* while( ! substepTimer.done() ): a pass of the loop is entered
LoopPassEntered ==
    /\ loopPc = "loop"
    /\ ~TimerDone(loopTimer)
    /\ ~BelowFloor

\* the substep clock a converged pass leaves untouched
SubstepTimerNotAdvanced(t) == t
\* ++substepTimer
SubstepTimerAdvanced(t) == Advance(t)

\* the branch of substepReport.converged
LoopPassConverged(factor) ==
    /\ LoopPassEntered
    /\ \E length \in {CurrentStepLength(loopTimer)} :
          loopTimer' = SetLastStepFailed(
              ProvideTimeStepEstimate(SubstepTimerAdvanced(loopTimer),
                  LimitGrowth(RMul(factor, length), length, loopRestarts)),
              FALSE)
    /\ loopRestarts' = IF loopRestarts > 0 THEN 0 ELSE loopRestarts
    /\ loopAdvanced' = TRUE
    /\ UNCHANGED <<loopPc, loopEscaped, loopChopped>>
    /\ UNCHANGED <<otherThanLoop>>

\* the branch of no convergence
LoopPassFailed ==
    IF RestartsExhausted(loopRestarts)
    THEN /\ loopPc' = "aborted"
         /\ loopEscaped' = "NumericalProblem"
         /\ loopTimer' = SetLastStepFailed(loopTimer, TRUE)
         /\ UNCHANGED <<loopRestarts, loopChopped>>
    ELSE /\ loopTimer' = ProvideTimeStepEstimate(
                 SetLastStepFailed(loopTimer, TRUE),
                 ChoppedTimeStep(CurrentStepLength(loopTimer)))
         /\ loopRestarts' = loopRestarts + 1
         /\ loopChopped' = TRUE
         /\ UNCHANGED <<loopPc, loopEscaped>>

\* solver.step returned a report that is not converged
LoopPassNotConverged ==
    /\ LoopPassEntered
    /\ LoopPassFailed
    /\ UNCHANGED <<loopAdvanced>>
    /\ UNCHANGED <<otherThanLoop>>

\* solver.step threw at site
LoopPassThrows(site) ==
    /\ LoopPassEntered
    /\ IF CatchClause(ThrownBy(site)).caught
       THEN LoopPassFailed
       ELSE /\ loopPc' = "aborted"
            /\ loopEscaped' = ThrownBy(site)
            /\ UNCHANGED <<loopTimer, loopRestarts, loopChopped>>
    /\ UNCHANGED <<loopAdvanced>>
    /\ UNCHANGED <<otherThanLoop>>

\* the loop is left: stepImpl returns
LoopLeft ==
    /\ loopPc = "loop"
    /\ TimerDone(loopTimer)
    /\ loopPc' = "returned"
    /\ UNCHANGED <<loopTimer, loopRestarts, loopEscaped, loopChopped, loopAdvanced>>
    /\ UNCHANGED <<otherThanLoop>>

\* the fields of the constructor as the loop reads them
LoopParameters ==
    /\ StepInit
    /\ ~full_timestep_initially_
    /\ timestep_after_event_ = R(-1, 1)
    /\ suggested_next_timestep_ = R(-1, 1)

LoopInit ==
    /\ loopTimer \in {NewSubstepTimer(length, first, max_time_step_) :
                        length \in LoopStepLengths, first \in FirstSubsteps}
    /\ loopRestarts = 0
    /\ loopPc = "loop"
    /\ loopEscaped = None
    /\ loopChopped = FALSE
    /\ loopAdvanced = FALSE

\* no substep loop is followed to its end
LoopParked ==
    /\ loopTimer = NoState /\ loopRestarts = 0 /\ loopPc = "parked"
    /\ loopEscaped = None /\ loopChopped = FALSE /\ loopAdvanced = FALSE


\* the well model is not run: no well state has been handed to it
WellsParked ==
    /\ solve_welleq_initially_ = FALSE
    /\ assembleWellState = NoState /\ ctrls = NoState /\ well_state0 = NoState
    /\ solveIt = 0
    /\ solveConverged = FALSE
    /\ wellReport = [converged |-> FALSE, total_well_iterations |-> 0]
    /\ wellsEscaped = None
    /\ wellsPc = None
    /\ iterationIdx = 0 - 1
    /\ assembleCalls = 0
    /\ wellStateAtEntry = NoState /\ ctrlsAtEntry = NoState
    /\ wellStateLeft = NoState /\ ctrlsLeft = NoState
    /\ updatesDone = 0
    /\ preSolve = None
    /\ wellVariables_ = NoState
    /\ controlsBefore = NoState /\ controlsAfter = NoState

\* updateState is not run
UpdateParked ==
    UpdateStart(FALSE, TRUE, TRUE,
                CHOOSE c \in CellStarts(FALSE) :
                    c.hydroCarbonState = "GasAndOil" /\ c.sg = R(3, 10))

\* the Newton iteration is not run: no time step has handed it a state
NewtonParked ==
    /\ minIter = 0 /\ max_strict_iter_ = 0 /\ groupControlActive = FALSE
    /\ simTimer = NoState
    /\ newtonPc = None
    /\ iteration = 0
    /\ reservoir_state = NoState /\ newton_well_state = NoState
    /\ ebosSolution = NoState
    /\ ebosResid = NoState /\ wellResidual = NoState
    /\ groupTargetConverged = FALSE
    /\ residual_norms_history_ = << >>
    /\ current_relaxation_ = One
    /\ iterReport = DefaultIterReport
    /\ newtonEscaped = None
    /\ iterationRun = 0 - 1
    /\ reservoirStateAtCheck = NoState /\ wellStateAtCheck = NoState
    /\ solutionAtCheck = NoState /\ solutionPerturbed = NoState
    /\ intensiveQuantitiesCache = NoState
    /\ linearizedOn = NoState /\ linearizedFor = NoState
    /\ relaxationBefore = One /\ oscillationDetected = FALSE

\* the time stepping is not run
StepParked ==
    /\ StepInit
    /\ solver_restart_max_ = 0
    /\ ~full_timestep_initially_
    /\ timestep_after_event_ = R(-1, 1)
    /\ suggested_next_timestep_ = R(-1, 1)

Init ==
    StepInit /\ NewtonParked /\ UpdateParked /\ WellsParked /\ SchurParked /\ FracParked /\ FluxParked /\ RepeatParked /\ LoopParked

Next ==
    \/ \E length \in ReportStepLengths, ev \in BOOLEAN : StepEnter(length, ev)
    \/ \E factor \in PolicyFactors : SubstepConverged(factor)
    \/ \E dirty \in Dirtied : SubstepNotConverged(dirty)
    \/ \E site \in ThrowSites, dirty \in Dirtied : SubstepThrows(site, dirty)
    \/ StepReturn

Spec == Init /\ [][Next]_vars

InitNewton ==
    NewtonInit /\ StepParked /\ UpdateParked /\ WellsParked /\ SchurParked /\ FracParked /\ FluxParked /\ RepeatParked /\ LoopParked

NextNewton == nonlinearIteration

SpecNewton == InitNewton /\ [][NextNewton]_vars

InitUpdate ==
    UpdateInit /\ StepParked /\ NewtonParked /\ WellsParked /\ SchurParked /\ FracParked /\ FluxParked /\ RepeatParked /\ LoopParked

NextUpdate == \E dx \in CellIncrements : updateState(dx)

SpecUpdate == InitUpdate /\ [][NextUpdate]_vars

InitWells ==
    WellsInit /\ StepParked /\ NewtonParked /\ UpdateParked /\ SchurParked /\ FracParked /\ FluxParked /\ RepeatParked /\ LoopParked

NextWells ==
    \/ AssembleWithoutPreSolve
    \/ AssembleEntersPreSolve
    \/ \E res \in PreSolveResiduals : PassThrows(res)
    \/ \E res \in PreSolveResiduals : PassConverges(res)
    \/ \E res \in PreSolveResiduals, dx_well \in PreSolveIncrements :
           PassUpdates(res, dx_well)

SpecWells == InitWells /\ [][NextWells]_vars

InitSchur ==
    SchurInit /\ StepParked /\ NewtonParked /\ UpdateParked /\ WellsParked /\ FracParked /\ FluxParked /\ RepeatParked /\ LoopParked

NextSchur ==
    \/ \E jac \in WellJacobians(numComponents(schurSolvent)) :
           assembleWellEq(jac)
    \/ \E r \in ReservoirVectors(numComponents(schurSolvent)) :
           applyResidual(r)
    \/ \E x, Ax \in ReservoirVectors(numComponents(schurSolvent)) :
           applyOperator(x, Ax)
    \/ \E x \in ReservoirVectors(numComponents(schurSolvent)) :
           recoverVariable(x)

SpecSchur == InitSchur /\ [][NextSchur]_vars

InitFrac ==
    FracInit /\ StepParked /\ NewtonParked /\ UpdateParked /\ WellsParked /\ SchurParked /\ FluxParked /\ RepeatParked /\ LoopParked

NextFrac == \E dwells \in FractionIncrements : updateWellFractions(dwells)

SpecFrac == InitFrac /\ [][NextFrac]_vars

InitFlux ==
    FluxInit /\ StepParked /\ NewtonParked /\ UpdateParked /\ WellsParked /\ SchurParked /\ FracParked /\ RepeatParked /\ LoopParked

NextFlux == PerforationFlux

SpecFlux == InitFlux /\ [][NextFlux]_vars

InitRepeat ==
    RepeatInit /\ StepParked /\ NewtonParked /\ UpdateParked /\ WellsParked /\ SchurParked /\ FracParked /\ FluxParked /\ LoopParked

NextRepeat == \E idx \in IterationIndices : assembleAgain(idx)

SpecRepeat == InitRepeat /\ [][NextRepeat]_vars

InitLoop ==
    LoopParameters /\ LoopInit /\ NewtonParked /\ UpdateParked /\ WellsParked /\ SchurParked /\ FracParked /\ FluxParked /\ RepeatParked

NextLoop ==
    \/ \E factor \in PolicyFactors : LoopPassConverged(factor)
    \/ LoopPassNotConverged
    \/ \E site \in ThrowSites : LoopPassThrows(site)
    \/ LoopLeft

\* every pass of the loop that can be taken is taken: stepImpl is sequential
\* code, and solver.step returns or throws
SpecLoop == InitLoop /\ [][NextLoop]_vars /\ WF_vars(NextLoop)



\* ------------------------------------------------------------------------
\* Properties of AdaptiveTimeStepping::stepImpl
\* ------------------------------------------------------------------------
AbortedByRestarts ==
    /\ pc = "aborted"
    /\ escaped = [kind |-> "NumericalProblem", from |-> "stepImpl"]

LastAttemptFailedAndRetried ==
    /\ pc = "loop"
    /\ dt # NoTime
    /\ ~substepReport.converged

\* C1: the substep clock advances by dt in a pass of the loop exactly when the
\* substep converged, and when stepImpl returns the lengths of the converged
\* substeps sum to the length of the report step and report.converged is true
C1_ConvergedSubstepsFillReportStep ==
    /\ (pc \in {"loop", "aborted"} /\ dt # NoTime) =>
          substepTimer.current_time_ =
              IF substepReport.converged THEN RAdd(clockBefore, dt) ELSE clockBefore
    /\ pc \in {"loop", "returned"} => substepTimer.current_time_ = convergedSum
    /\ pc = "loop" => RLe(convergedSum, timestep)
    /\ pc = "returned" => convergedSum = timestep /\ report.converged

\* a report step that returned after two converged substeps and a failed attempt
C1_Witness ==
    /\ pc = "returned" /\ reportSteps = 1
    /\ numConverged = 2 /\ attempts = 3
    /\ convergedSum = timestep /\ report.converged

\* C2: an exception of the recoverable kinds thrown by solver.step never
\* leaves stepImpl; it ends the attempt as a substep that did not converge
C2_RecoverableFailuresCaught ==
    /\ escaped.from = "solver.step" => escaped.kind \notin Recoverable
    /\ caught \in Recoverable =>
          /\ ~substepReport.converged
          /\ substepTimer.current_time_ = clockBefore
          /\ pc = "loop" \/ AbortedByRestarts

\* a MatrixBlockError was caught and the substep is retried
C2_Witness ==
    /\ pc = "loop" /\ caught = "MatrixBlockError"
    /\ restarts = 1 /\ escaped = NoException

\* C3: when a failed attempt is retried, state and well_state are those of
\* the last converged substep, or of the entry of stepImpl if none converged
C3_RetryStartsFromCheckpoint ==
    LastAttemptFailedAndRetried =>
        /\ state = goodState
        /\ well_state = goodWellState

\* a retry after a converged substep, the failed solver.step having changed
\* both states
C3_Witness ==
    /\ LastAttemptFailedAndRetried
    /\ numConverged = 1
    /\ stateAfterSolve # goodState /\ wellStateAfterSolve # goodWellState
    /\ state = goodState /\ well_state = goodWellState

\* C4: restarts counts the failed attempts since the last converged substep,
\* and stepImpl throws NumericalProblem exactly at failure number
\* solver_restart_max_ + 1 of a run of failures
C4_AbortAtRestartMaxPlusOne ==
    /\ pc \in {"loop", "returned"} => restarts = consecFails
    /\ consecFails <= solver_restart_max_ + 1
    /\ AbortedByRestarts <=> consecFails = solver_restart_max_ + 1

\* an abort on the second failure in a row, after a converged substep that
\* had reset the counter
C4_Witness ==
    /\ AbortedByRestarts
    /\ solver_restart_max_ = 1 /\ consecFails = 2
    /\ numConverged = 1 /\ prevFailed

\* C5: when stepImpl throws because the restarts are used up, state and
\* well_state are those of the last checkpoint
C5_RestoredBeforeAbort ==
    AbortedByRestarts =>
        /\ state = goodState
        /\ well_state = goodWellState

\* C6: after a failed attempt of length dt the proposed length is
\* restart_factor_ * dt, and after k failures in a row it is
\* restart_factor_^k times the length of the first of them
C6_ChopByRestartFactor ==
    LastAttemptFailedAndRetried =>
        /\ newTimeStep = RMul(restart_factor_, dt)
        /\ newTimeStep = RMul(RPow(restart_factor_, consecFails), firstFailedDt)

\* two failures in a row from a first attempt of 10 days (a third of 30 days)
C6_Witness ==
    /\ LastAttemptFailedAndRetried
    /\ consecFails = 2
    /\ firstFailedDt = R(10, 1)
    /\ newTimeStep = R(10, 9)

\* C7: after a converged substep of length dt the proposed length is at most
\* max_growth_ * dt, and at most growth_factor_ * dt if an attempt failed
\* since the converged substep before
C7_GrowthLimited ==
    (pc \in {"loop", "returned"} /\ substepReport.converged) =>
        /\ RLe(dtEstimate, RMul(max_growth_, dt))
        /\ prevFailed => RLe(dtEstimate, RMul(growth_factor_, dt))

\* after a failure the step size control asks for more than growth_factor_ * dt
C7_Witness ==
    /\ pc = "loop" /\ substepReport.converged
    /\ prevFailed
    /\ dtEstimate = RMul(growth_factor_, dt)
    /\ RLt(dtEstimate, RMul(max_growth_, dt))

\* the substep length of C8, by the precedence of its cases
FirstLengthByCase ==
    IF event /\ RGt(timestep_after_event_, Zero) THEN timestep_after_event_
    ELSE IF full_timestep_initially_ THEN timestep
    ELSE IF RLt(enteredWith, Zero) THEN RMul(restart_factor_, timestep)
    ELSE enteredWith

\* C8 as stated: the first substep length attempted in a report step is the
\* length given by the precedence of the cases
C8_FirstAttemptIsSuggestion ==
    (pc # "constructed" /\ firstDt # NoTime) => firstDt = FirstLengthByCase

\* C8 amended: the length given by the precedence of the cases is the one
\* handed to the substep timer, the suggestion at entry of a later report
\* step is the one stored by the return before, and the first length
\* attempted is at most the length of the report step
C8_FirstSuggestionByCase ==
    pc # "constructed" =>
        /\ firstSuggested = FirstLengthByCase
        /\ (reportSteps >= 2 /\ pc # "returned") => enteredWith = persisted
        /\ firstDt # NoTime => RLe(firstDt, timestep)

\* a second report step that starts from the stored suggestion, and a report
\* step after an event whose fixed length exceeds the report step
C8_Witness ==
    /\ reportSteps = 2 /\ firstDt # NoTime
    /\ ~event /\ ~full_timestep_initially_
    /\ firstSuggested = persisted
    /\ firstDt = firstSuggested

\* ------------------------------------------------------------------------
\* Properties of the Newton iteration, stated of SpecNewton
\* ------------------------------------------------------------------------
\* the last call of nonlinearIteration returned a report
IterationReturned ==
    iterationRun >= 0 /\ newtonPc \in {"iterating", "converged"}

\* the residual measures of the last convergence check
ResidualsAtCheck ==
    ResidualNorms(ebosResid, wellResidual, simTimer.currentStepLength)

MassBalanceBelowTolerance ==
    \A k \in Comps : RLt(ResidualsAtCheck[k].mass_balance_residual, tolerance_mb_)
WellFluxBelowTolerance ==
    \A k \in Comps : RLt(ResidualsAtCheck[k].well_flux_residual, tolerance_wells_)
CNVBelowTolerance ==
    \A k \in Comps : RLt(ResidualsAtCheck[k].CNV, tolerance_cnv_)

C10_ConvergedIsNoOp ==
    newtonPc = "converged" =>
        /\ reservoir_state = reservoirStateAtCheck
        /\ newton_well_state = wellStateAtCheck
        /\ ebosSolution = solutionAtCheck
        /\ solutionPerturbed = solutionAtCheck


\* C11: the linearize() of every assemble works on the caller's current
\* reservoir state: the solution the grid simulator holds is the conversion
\* of that state and the cached intensive quantities were computed from it,
\* at the first iteration after a failed substep has been rolled back as well
\* as after a Newton update; and a Newton update leaves the new state
\* pushed and the cache of time index 0 invalidated.
C11_LinearizeSeesCurrentState ==
    /\ iterationRun >= 0 => linearizedOn = ConvertInput(linearizedFor)
    /\ (newtonPc = "iterating" /\ iteration > 0) =>
           /\ ebosSolution = ConvertInput(reservoir_state)
           /\ ~intensiveQuantitiesCache.valid

\* the second call of a time step that follows a failed one: its
\* linearize() came after the roll back and after a Newton update
C11_Witness ==
    /\ iterationRun = 1
    /\ simTimer.lastStepFailed
    /\ linearizedFor # InitialReservoirState
    /\ linearizedOn = ConvertInput(linearizedFor)


\* ------------------------------------------------------------------------
\* Properties of updateState, stated of SpecUpdate
\* ------------------------------------------------------------------------
Updated == updateCount > 0
Within(a, b, bound) == RLe(RAbs(RSub(a, b)), bound)
WaterOnly(u) == RGt(u.sw, RSub(One, epsilon))
\* min(1, ds_max / max |ds|) over the increments of the saturations
CommonStep ==
    LET maxVal == RMax(RAbs(chopped.dss), RMax(RAbs(chopped.dsg), RAbs(chopped.dsw)))
    IN  IF maxVal = Zero THEN One ELSE RMin(One, RDiv(ds_max_, maxVal))
PressureChangeLimited ==
    Within(cell.pressure, cellBefore.pressure,
           RMul(dp_max_rel_, RAbs(cellBefore.pressure)))

\* C12 as claimed: after updateState the changes of water, gas and solvent
\* saturation of the cell are each at most ds_max in magnitude and are the
\* increments scaled by the one factor min(1, ds_max / max |ds|), and the
\* change of the pressure is at most dp_max_rel times the previous pressure
\* in magnitude.
C12_ChangesWithinLimits ==
    Updated =>
        /\ cell.sw = RSub(cellBefore.sw, RMul(CommonStep, chopped.dsw))
        /\ cell.sg = RSub(cellBefore.sg, RMul(CommonStep, chopped.dsg))
        /\ cell.ss = RSub(cellBefore.ss, RMul(CommonStep, chopped.dss))
        /\ Within(cell.sw, cellBefore.sw, ds_max_)
        /\ Within(cell.sg, cellBefore.sg, ds_max_)
        /\ Within(cell.ss, cellBefore.ss, ds_max_)
        /\ PressureChangeLimited

\* C12 as amended: the bound and the common factor hold of the water and
\* solvent saturation after updateState and of the gas saturation after the
\* Appleyard chop; the gas saturation after updateState is the chopped one
\* when the phase translation takes no switch.
C12_ChoppedChangesWithinLimits ==
    Updated =>
        /\ cell.sw = RSub(cellBefore.sw, RMul(CommonStep, chopped.dsw))
        /\ chopped.sg = RSub(cellBefore.sg, RMul(CommonStep, chopped.dsg))
        /\ cell.ss = RSub(cellBefore.ss, RMul(CommonStep, chopped.dss))
        /\ Within(cell.sw, cellBefore.sw, ds_max_)
        /\ Within(chopped.sg, cellBefore.sg, ds_max_)
        /\ Within(cell.ss, cellBefore.ss, ds_max_)
        /\ (switched = "none" => cell.sg = chopped.sg)
        /\ PressureChangeLimited

\* an update whose increments of water and gas saturation differ and are
\* both chopped by the factor of the larger one
C12_Witness ==
    /\ Updated
    /\ cellBefore.hydroCarbonState = "GasAndOil"
    /\ RLt(CommonStep, One)
    /\ chopped.dsg # Zero /\ RAbs(chopped.dsw) # RAbs(chopped.dsg)
    /\ switched = "none"
    /\ cell.pressure # cellBefore.pressure

SaturationSum(c) == RAdd(RAdd(RAdd(c.sw, c.sg), c.so), c.ss)

\* C13: after updateState the saturations of water, gas and oil, and of the
\* solvent when active, sum to 1 in the cell, also after a switch of the
\* hydrocarbon state in the same update.
C13_SaturationsSumToOne ==
    Updated => SaturationSum(cell) = One

InUnit(x) == RGe(x, Zero) /\ RLe(x, One)

\* C14: after every updateState the pressure, rs and rv of the cell are not
\* negative and each of its phase saturations lies in [0, 1].
C14_WithinPhysicalBounds ==
    Updated =>
        /\ RGe(cell.pressure, Zero) /\ RGe(cell.rs, Zero) /\ RGe(cell.rv, Zero)
        /\ InUnit(cell.sw) /\ InUnit(cell.sg) /\ InUnit(cell.so)

\* the switch out of one-phase hydrocarbon: gas and oil, the new phase at
\* epsilon, the other one reduced by epsilon, the ratio reset to saturated
Oversaturated(limitRs, limitRv) ==
    /\ (cellBefore.hydroCarbonState = "OilOnly" /\ ~WaterOnly(chopped)
            /\ RGt(chopped.rs, limitRs)) =>
           /\ cell.hydroCarbonState = "GasAndOil"
           /\ cell.sg = epsilon
           /\ cell.so = RSub(chopped.so, epsilon)
           /\ cell.rs = RsSat(cell.pressure)
    /\ (cellBefore.hydroCarbonState = "GasOnly" /\ ~WaterOnly(chopped)
            /\ RGt(chopped.rv, limitRv)) =>
           /\ cell.hydroCarbonState = "GasAndOil"
           /\ cell.so = epsilon
           /\ cell.sg = RSub(chopped.sg, epsilon)
           /\ cell.rv = RvSat(cell.pressure)
ZeroUpdateAfterSwitch ==
    /\ updateCount >= 2
    /\ switchedBefore \in {"rsAboveSat", "rvAboveSat"}
    /\ dxCell = ZeroIncrement

\* C15 as claimed: a cell of oil only that is not water only and whose
\* updated rs exceeds the saturated value at its pressure is switched to gas
\* and oil with sg = epsilon, so reduced by epsilon and rs reset to the
\* saturated value (likewise a cell of gas only with rv), and an update with
\* zero increment that follows leaves the cell in gas and oil.
C15_OversaturationSwitchesOnce ==
    Updated =>
        /\ Oversaturated(RsSat(chopped.pressure), RvSat(chopped.pressure))
        /\ ZeroUpdateAfterSwitch => cell.hydroCarbonState = "GasAndOil"

\* C15 as amended: the switch is taken when the updated rs exceeds the
\* saturated value times (1 + epsilon) (likewise rv), and the update with
\* zero increment that follows leaves the cell in gas and oil unless the
\* switch left the reduced saturation at or below 0 and the feature that
\* takes the cell to the other one-phase state is enabled.
C15_SwitchAboveSaturationMargin ==
    Updated =>
        /\ Oversaturated(RMul(RsSat(chopped.pressure), RAdd(One, epsilon)),
                         RMul(RvSat(chopped.pressure), RAdd(One, epsilon)))
        /\ (ZeroUpdateAfterSwitch
                /\ ~(switchedBefore = "rsAboveSat" /\ RLe(cellBefore.so, Zero)
                        /\ has_vapoil_)
                /\ ~(switchedBefore = "rvAboveSat" /\ RLe(cellBefore.sg, Zero)
                        /\ has_disgas_))
               => cell.hydroCarbonState = "GasAndOil"

\* an update with zero increment that follows the switch of a cell of oil
\* only and leaves it in gas and oil
C15_Witness ==
    /\ ZeroUpdateAfterSwitch
    /\ switchedBefore = "rsAboveSat"
    /\ cellBefore.sg = epsilon /\ cellBefore.rs = RsSat(cellBefore.pressure)
    /\ cell.hydroCarbonState = "GasAndOil"

\* C16: a cell of gas and oil that is not water only becomes oil only when
\* sg is at or below 0 and dissolved gas is enabled (sg = 0, so = 1 - sw -
\* ss), otherwise gas only when so is at or below 0 and vaporized oil is
\* enabled (so = 0, sg = 1 - sw - ss), and otherwise stays gas and oil with
\* rs and rv at their saturated values.
C16_GasAndOilSwitches ==
    (Updated /\ cellBefore.hydroCarbonState = "GasAndOil" /\ ~WaterOnly(chopped)) =>
        IF RLe(chopped.sg, Zero) /\ has_disgas_
        THEN /\ cell.hydroCarbonState = "OilOnly"
             /\ cell.sg = Zero
             /\ cell.so = RSub(RSub(One, cell.sw), cell.ss)
        ELSE IF RLe(chopped.so, Zero) /\ has_vapoil_
        THEN /\ cell.hydroCarbonState = "GasOnly"
             /\ cell.so = Zero
             /\ cell.sg = RSub(RSub(One, cell.sw), cell.ss)
        ELSE /\ cell.hydroCarbonState = "GasAndOil"
             /\ cell.rs = RsSat(cell.pressure)
             /\ cell.rv = RvSat(cell.pressure)

\* a cell of gas and oil whose gas is gone while dissolved gas is disabled:
\* it stays gas and oil
C16_Witness ==
    /\ Updated /\ cellBefore.hydroCarbonState = "GasAndOil" /\ ~WaterOnly(chopped)
    /\ RLe(chopped.sg, Zero) /\ ~has_disgas_
    /\ cell.hydroCarbonState = "GasAndOil"
    /\ cell.rs = RsSat(cell.pressure)

\* C17: a cell whose water saturation is above 1 - epsilon at an updateState
\* ends the update in gas and oil with rs = 0 and rv = 0, whatever its
\* hydrocarbon state was.
C17_WaterOnlyCell ==
    (Updated /\ WaterOnly(chopped)) =>
        /\ cell.hydroCarbonState = "GasAndOil"
        /\ cell.rs = Zero
        /\ cell.rv = Zero


\* ------------------------------------------------------------------------
\* Properties of the failures of the well model, stated of Spec
\* ------------------------------------------------------------------------
\* the exception of the last pass left stepImpl as solver.step threw it
Propagated ==
    /\ pc = "aborted"
    /\ escaped = [kind |-> ThrownBy(thrownAt), from |-> "solver.step"]
    /\ caught = None

\* C18: a failure of the fixed-point iteration of computeWellPotentialWithTHP
\* during a substep is not turned into a retry of the substep: the exception
\* leaves stepImpl and ends the run.
C18_THPFailureIsFatal ==
    thrownAt = "computeWellPotentialWithTHP" => Propagated

\* C19: a zero pivot met by computeWellFlux is not handled as a substep that
\* did not converge: the exception leaves stepImpl and ends the run, and no
\* chopped step is tried.
C19_ZeroPivotIsFatal ==
    thrownAt = "computeWellFlux" => (Propagated /\ newTimeStep = NoTime)


\* ------------------------------------------------------------------------
\* Properties of the pre-solve of the well equations, stated of SpecWells
\* ------------------------------------------------------------------------
\* C20: solveWellEq updates the wells at most 15 times; when it has not
\* converged by then, assemble returns with the well state and the current
\* control of every well as they were at the entry of solveWellEq, with no
\* exception, and with a report that is converged.
C20_PreSolveRestoresOnFailure ==
    /\ updatesDone <= WellIterationCap
    /\ preSolve = "notConverged" =>
           /\ wellsPc = "assembled"
           /\ assembleWellState = wellStateAtEntry
           /\ ctrls = ctrlsAtEntry
           /\ wellsEscaped = None
           /\ wellReport.converged

\* the pre-solve gave up after 15 updates that had moved the well state and
\* switched a control
C20_Witness ==
    /\ preSolve = "notConverged"
    /\ updatesDone = WellIterationCap
    /\ wellStateLeft # wellStateAtEntry
    /\ ctrlsLeft # ctrlsAtEntry
    /\ assembleWellState = wellStateAtEntry

\* ------------------------------------------------------------------------
\* Properties of the well operator (apply, recoverVariable, D)
\* ------------------------------------------------------------------------
\* B of the coupled system [A B; C D]: duneB_ holds its transpose, B z
\* is duneB_^T z
BTimes(z, n) == [c \in SchurCells |-> BlockMtv(duneB_[c], z, n)]

\* invDrw_ holds invD v: D invDrw_ = v for the well block D of this assembly
InvDrwSolves(v, n) == BlockMv(wellBlock, invDrw_, n) = v

AppliedToOperator == schurPc = "applied" /\ schurOp = "apply(x, Ax)"
AppliedToResidual == schurPc = "applied" /\ schurOp = "apply(r)"

\* C21 as stated: apply(x, Ax) performs Ax += B invD C x and apply(r)
\* performs r += B invD resWell, invD being the inverse of the well block D
\* assembled in the same iteration.
C21_ApplyAddsSchurAction ==
    \A n \in {numComponents(schurSolvent)} :
        /\ AppliedToOperator =>
              /\ InvDrwSolves(RowMv(duneC_, schurX, n), n)
              /\ \A c \in SchurCells :
                    schurOut[c] = VecAdd(schurIn[c], BTimes(invDrw_, n)[c], n)
        /\ AppliedToResidual =>
              /\ InvDrwSolves(resWell_, n)
              /\ \A c \in SchurCells :
                    schurOut[c] = VecAdd(schurIn[c], BTimes(invDrw_, n)[c], n)

\* C21 amended: apply(x, Ax) performs Ax -= B invD C x and apply(r) performs
\* r -= B invD resWell, invD being the inverse of the well block D assembled
\* in the same iteration.
C21_ApplySubtractsSchurAction ==
    \A n \in {numComponents(schurSolvent)} :
        /\ AppliedToOperator =>
              /\ InvDrwSolves(RowMv(duneC_, schurX, n), n)
              /\ \A c \in SchurCells :
                    schurOut[c] = VecSub(schurIn[c], BTimes(invDrw_, n)[c], n)
        /\ AppliedToResidual =>
              /\ InvDrwSolves(resWell_, n)
              /\ \A c \in SchurCells :
                    schurOut[c] = VecSub(schurIn[c], BTimes(invDrw_, n)[c], n)

\* apply(x, Ax) has run with a well contribution that is not zero, on an
\* Ax that was not zero either
C21_Witness ==
    /\ AppliedToOperator
    /\ schurOut # schurIn
    /\ schurIn # [c \in SchurCells |-> ZeroVec(numComponents(schurSolvent))]
    /\ invDrw_ # ZeroVec(numComponents(schurSolvent))

\* C22: after assemble, recoverVariable(x, xw) yields
\* xw = invD (resWell - C x) for any x, and D xw + C x, with the well block
\* that D() returns, gives back resWell.
C22_RecoveredSolvesWellEquations ==
    \A n \in {numComponents(schurSolvent)} :
        (schurPc = "recovered") =>
            /\ BlockMv(wellBlock, schurOut, n)
                  = VecSub(resWell_, RowMv(duneC_, schurX, n), n)
            /\ VecAdd(BlockMv(duneD_, schurOut, n),
                      RowMv(duneC_, schurX, n), n) = resWell_

\* without solvent the reconstruction does hold
C22_ThreeEquationsReconstruct ==
    \A n \in {numComponents(schurSolvent)} :
        (schurPc = "recovered" /\ ~schurSolvent) =>
            VecAdd(BlockMv(duneD_, schurOut, n),
                   RowMv(duneC_, schurX, n), n) = resWell_

\* ------------------------------------------------------------------------
\* Properties of the well controls
\* ------------------------------------------------------------------------
\* the controls of well w, other than the current one, whose constraint the
\* well state xw breaks
BrokenControls(xw, w) ==
    {i \in 1..Len(WellControls(w)) :
        i # xw.currentControls[w] /\ ConstraintBroken(xw, w, i)}

ControlsUpdated == wellsPc \in {"solveWellEq", "assembled", "threw"}

C23_ExampleReached ==
    /\ ControlsUpdated
    /\ \E w \in Wells :
          /\ WellType(w) = "PRODUCER"
          /\ WellControls(w)[controlsBefore.currentControls[w]].type = "SURFACE_RATE"
          /\ RLt(controlsBefore.bhp[w], WellControls(w)[1].target)
          /\ WellControls(w)[controlsAfter[w]].type = "BHP"

\* the well equations are assembled: by a pass of the loop of solveWellEq
\* that is to come, or by assemble after it
WellEquationsAssembled == wellsPc \in {"solveWellEq", "assembled"}

ValidControl(w, index) == index \in 1..Len(WellControls(w))

C29_AssemblyUsesRestoredWellVariables ==
    (preSolve = "notConverged" /\ wellsPc = "assembled") =>
        wellVariables_ = setWellVariables(assembleWellState)

\* ------------------------------------------------------------------------
\* Properties of the fractions of a well
\* ------------------------------------------------------------------------
FractionSum(F) == RAdd(RAdd(F.water, F.gas), RAdd(F.solvent, F.oil))

\* C25: after every updateWellState, for any update vector, the fractions
\* of water, of gas and of solvent when they are active, and the oil fraction
\* derived from them sum to 1 after the normalization.
C25_FractionsSumToOne ==
    fracUpdates > 0 =>
        /\ FractionSum(normalizedF) = One
        /\ normalizedF = FractionsOf(wellFractions, fracGas, fracSolvent)

\* an update with solvent in which a negative gas fraction was removed and
\* the other fractions were scaled
C25_Witness ==
    /\ fracUpdates > 0
    /\ fracSolvent
    /\ RLt(limitedF.gas, Zero)
    /\ normalizedF.gas = Zero
    /\ normalizedF.solvent # limitedF.solvent
    /\ normalizedF.water # limitedF.water

\* ------------------------------------------------------------------------
\* Properties of the well flux
\* ------------------------------------------------------------------------
\* the loop has been through perforation perf
FluxComputed(perf) == perf < fluxPerf

\* perforation perf flows against the type of the well: it produces in an
\* injector or injects in a producer
FlowsAgainstType(perf) ==
    \/ /\ fluxWell.type = "INJECTOR"
       /\ RGt(Drawdown(fluxCells[perf].pressure, fluxWell.bhp), Zero)
    \/ /\ fluxWell.type = "PRODUCER"
       /\ RLt(Drawdown(fluxCells[perf].pressure, fluxWell.bhp), Zero)

SomePerforationFlowsWithType ==
    \E perf \in Perforations :
        FlowsWithType(fluxWell.type,
                      Drawdown(fluxCells[perf].pressure, fluxWell.bhp))

\* C27 as stated: when cross flow is not allowed for a well, a perforation
\* that flows against the type of the well contributes zero flux for every
\* component, and no error is raised.
C27_CrossFlowContributesNothing ==
    \A perf \in Perforations :
        (FluxComputed(perf) /\ ~fluxWell.allow_cf /\ FlowsAgainstType(perf)) =>
            /\ perfFlux[perf] = ZeroFlux
            /\ fluxThrown # perf

\* C27 amended: when cross flow is not allowed for a well and at least one
\* of its perforations flows with the type of the well, a perforation that
\* flows against the type contributes zero flux for every component, and no
\* error is raised.
C27_CrossFlowOfSomeContributesNothing ==
    \A perf \in Perforations :
        (/\ FluxComputed(perf) /\ ~fluxWell.allow_cf /\ FlowsAgainstType(perf)
         /\ SomePerforationFlowsWithType) =>
            /\ perfFlux[perf] = ZeroFlux
            /\ fluxThrown # perf

\* a producer that does not allow cross flow has been through an injecting
\* perforation, whose flux is zero, and a producing one, whose flux is not
C27_Witness ==
    /\ fluxWell.type = "PRODUCER" /\ ~fluxWell.allow_cf
    /\ fluxPerf > NumPerforations
    /\ \E perf \in Perforations :
          FlowsAgainstType(perf) /\ perfFlux[perf] = ZeroFlux
    /\ \E perf \in Perforations :
          ~FlowsAgainstType(perf) /\ perfFlux[perf] # ZeroFlux

\* ------------------------------------------------------------------------
\* Properties of the relaxation of the Newton update
\* ------------------------------------------------------------------------
\* the relaxation the last call of nonlinearIteration started from: 1 at
\* iteration 0, whatever an earlier time step had left
RelaxationStartedFrom == IF iterationRun = 0 THEN One ELSE relaxationBefore

\* C28: within a time step the relaxation factor starts at 1 at iteration
\* 0, is decreased by relaxIncrement only in iterations in which oscillation
\* is detected, never increases from one iteration to the next and never
\* drops below relaxMax.
C28_RelaxationOnlyDecreases ==
    iterationRun >= 0 =>
        /\ RLe(current_relaxation_, RelaxationStartedFrom)
        /\ RGe(current_relaxation_, relaxMax)
        /\ current_relaxation_ # RelaxationStartedFrom =>
               /\ oscillationDetected
               /\ current_relaxation_ =
                      RMax(RSub(RelaxationStartedFrom, relaxIncrement), relaxMax)
        /\ (iterationRun = 0 /\ ~oscillationDetected) => current_relaxation_ = One

\* a time step that started with the relaxation an earlier one had left at
\* its lower bound has oscillated twice: 1 at iteration 0, 7/10 after it,
\* and the lower bound, not 4/10, after iteration 1
C28_Witness ==
    /\ simTimer.lastStepFailed
    /\ iterationRun = 1
    /\ oscillationDetected
    /\ relaxationBefore = RSub(One, relaxIncrement)
    /\ RLt(RSub(relaxationBefore, relaxIncrement), relaxMax)
    /\ current_relaxation_ = relaxMax

\* two calls of assemble in a row with the same iteration index
CalledTwiceAlike ==
    /\ repeatCalls >= 2
    /\ assembledBefore.iterationIdx = assembledNow.iterationIdx

\* B, C, D and the well residual of the last call are those of the call before
SameAssembly ==
    /\ assembledNow.duneB = assembledBefore.duneB
    /\ assembledNow.duneC = assembledBefore.duneC
    /\ assembledNow.duneD = assembledBefore.duneD
    /\ assembledNow.resWell = assembledBefore.resWell

ReturnedCompleted == loopPc = "returned" /\ TimerDone(loopTimer)

\* a pass after which the loop goes on has advanced the substep clock by the
\* length it attempted, or has used one restart and left the clock alone
PassAdvancesOrRestarts ==
    (loopPc = "loop" /\ loopPc' = "loop") =>
        \/ /\ loopTimer'.current_time_ =
                  RAdd(loopTimer.current_time_, CurrentStepLength(loopTimer))
           /\ loopRestarts' = 0
        \/ /\ loopTimer'.current_time_ = loopTimer.current_time_
           /\ loopRestarts' = loopRestarts + 1
           /\ loopRestarts' <= solver_restart_max_

\* C30 as claimed: a pass that stays in the loop advances the substep clock
\* by the attempted length or uses one restart of the bounded budget, and the
\* loop ends: stepImpl returns with the report step completed or aborts with
\* NumericalProblem, unless a substep length falls below the least length
C30_StepReturnsOrAbortsNumerical ==
    /\ [][PassAdvancesOrRestarts]_loopVars
    /\ (loopPc = "loop") ~>
           \/ ReturnedCompleted
           \/ loopPc = "aborted" /\ loopEscaped = "NumericalProblem"
           \/ BelowFloor

\* C30 as amended: a pass that stays in the loop advances the substep clock
\* by the attempted length or uses one restart of the bounded budget, and the
\* loop ends: stepImpl returns with the report step completed, aborts with
\* NumericalProblem or lets through an exception of solver.step that it does
\* not catch, unless a substep length falls below the least length
C30_StepReturnsOrAborts ==
    /\ [][PassAdvancesOrRestarts]_loopVars
    /\ (loopPc = "loop") ~>
           \/ ReturnedCompleted
           \/ loopPc = "aborted" /\ loopEscaped = "NumericalProblem"
           \/ loopPc = "aborted" /\ ~CatchClause(loopEscaped).caught
           \/ BelowFloor

\* stepImpl returned after a pass that chopped the substep length and a pass
\* that advanced the clock
C30_Witness ==
    ReturnedCompleted /\ loopChopped /\ loopAdvanced

====
